---- MODULE Spec2Model ----
(***************************************************************************)
(* Helix router: the complexity evaluator with its cache                   *)
(* (ComplexityEvaluator), the routing engine (RoutingEngine), the proxy    *)
(* and server that forward requests (HelixProxy, HelixServer), and the     *)
(* logger with its statistics (HelixLogger, StatsTracker).                 *)
(*                                                                         *)
(* Conventions of the model                                                *)
(*  - a string the code iterates over (message content) is a sequence of  *)
(*    UTF-16 code units; enumerated strings stay TLA+ strings;             *)
(*  - confidence, a real in [0,1], is held in thousandths (600 = 0.6);     *)
(*  - Date.now() is the variable now, which never goes backwards;          *)
(*  - the JS Map of the cache is a sequence in insertion order;            *)
(*  - objects that are shared by reference (the count objects of the      *)
(*    statistics) live on a heap and are held as indices into it.         *)
(***************************************************************************)
EXTENDS Integers, Sequences, FiniteSets, Bags, TLC

(* ------------------------------ bounds -------------------------------- *)

\* Date.now() runs over 0..MaxTime.
MaxTime == 2

\* cacheTtlMs of the evaluator (3600000 by default), scaled to clock ticks.
CacheTtlMs == 1

\* The cache bound, the literal 1000 of setCache, scaled to the model.
MaxCacheEntries == 2

\* The most lines a backend stream body has.
MaxLines == 3

\* The most requests the server takes.
MaxRequests == 2

\* The most entries a StatsTracker records between two resets, and the most
\* resets it sees.
MaxRecords == 3

MaxResets == 1

\* The most entries recorded where only the cache hit rate is followed.
MaxHitRateRecords == 40

(* --------------------------- small helpers ---------------------------- *)

Min(a, b) == IF a < b THEN a ELSE b

Max(a, b) == IF a > b THEN a ELSE b

Abs(n) == IF n < 0 THEN 0 - n ELSE n

(* ------------------------- enumerations (types) ----------------------- *)

ReasoningDepths == {"low", "medium", "high"}

TaskTypes ==
  {"classification", "extraction", "summarization", "writing", "coding",
   "architecture_design", "mathematical_reasoning", "visualization",
   "multi_step_planning", "other"}

ConstraintLevels == {"low", "medium", "high"}

AccuracyRequirements == {"low", "medium", "high"}

TokenSizes == {"small", "medium", "large", "very_large"}

RouteTiers == {"pro", "mid", "low"}

(* ----------------------------- score tables --------------------------- *)

REASONING_DEPTH_SCORES == [low |-> 10, medium |-> 20, high |-> 30]

TASK_TYPE_SCORES ==
  [classification |-> 5, extraction |-> 5, summarization |-> 10,
   writing |-> 15, coding |-> 20, visualization |-> 15,
   architecture_design |-> 30, mathematical_reasoning |-> 30,
   multi_step_planning |-> 25, other |-> 15]

CONSTRAINT_LEVEL_SCORES == [low |-> 5, medium |-> 10, high |-> 20]

ACCURACY_SCORES == [low |-> 5, medium |-> 10, high |-> 20]

(* ------------------------------ hashPrompt ---------------------------- *)

\* One round of the loop: hash = ((hash << 5) - hash) + char; hash = hash & hash.
\* The result is 31*hash + char wrapped to a signed 32-bit integer; it is
\* computed on 16-bit halves so that no intermediate value leaves 32 bits.
HashStep(hash, char) ==
  LET lo    == hash % 65536
      hi    == (hash - lo) \div 65536
      lo2   == 31 * lo + char
      hi2   == 31 * hi + (lo2 \div 65536)
      hiS   == ((hi2 + 32768) % 65536) - 32768
  IN  hiS * 65536 + (lo2 % 65536)

RECURSIVE HashLoop(_, _)
HashLoop(hash, content) ==
  IF content = <<>> THEN hash
  ELSE HashLoop(HashStep(hash, Head(content)), Tail(content))

\* Number.prototype.toString(16) of a non-negative integer: its hex digits,
\* most significant first (each digit a number 0..15).
RECURSIVE ToHex(_)
ToHex(n) == IF n < 16 THEN <<n>> ELSE ToHex(n \div 16) \o <<n % 16>>

\* A join over the turns of every role.
RECURSIVE JoinUserTurns_AllRoles(_)
JoinUserTurns_AllRoles(messages) ==
  IF messages = <<>> THEN <<>>
  ELSE Head(messages).content
         \o (IF Tail(messages) # <<>> THEN <<124>> ELSE <<>>)
         \o JoinUserTurns_AllRoles(Tail(messages))

\* .filter(role === "user").map(content).join("|")
RECURSIVE JoinUserTurns(_)
JoinUserTurns(messages) ==
  IF messages = <<>> THEN <<>>
  ELSE LET m    == Head(messages)
           rest == JoinUserTurns(Tail(messages))
           more == \E i \in 1..Len(Tail(messages)) : Tail(messages)[i].role = "user"
       IN  IF m.role = "user"
             THEN m.content \o (IF more THEN <<124>> ELSE <<>>) \o rest
             ELSE rest

hashPrompt(messages) == ToHex(Abs(HashLoop(0, JoinUserTurns(messages))))

(* --------------------------- ComplexityEvaluation --------------------- *)

Evaluation(rd, tt, cl, ra, ts, score, conf) ==
  [reasoning_depth |-> rd, task_type |-> tt, constraint_level |-> cl,
   required_accuracy |-> ra, estimated_token_size |-> ts,
   complexity_score |-> score, confidence |-> conf]

\* Mutant: the default carries the score its fields recompute to.
getDefaultEvaluation_Recomputed ==
  Evaluation("medium", "other", "medium", "medium", "medium", 55, 600)

\* getDefaultEvaluation(): the conservative default (confidence 0.6).
getDefaultEvaluation ==
  Evaluation("medium", "other", "medium", "medium", "medium", 50, 600)

(* ------------------- the parsed reply of the auxiliary model ---------- *)

\* A JSON value used where the code applies Number(): a number (confidence in
\* thousandths) or something Number() turns into NaN.
Num(n) == [nan |-> FALSE, val |-> n]

NaN == [nan |-> TRUE, val |-> 0]

FieldNames ==
  {"reasoning_depth", "task_type", "constraint_level", "required_accuracy",
   "estimated_token_size", "complexity_score", "confidence"}

\* The object JSON.parse returned: absent names the keys it does not have.
RawObject(absent, rd, tt, cl, ra, ts, score, conf) ==
  [absent |-> absent, reasoning_depth |-> rd, task_type |-> tt,
   constraint_level |-> cl, required_accuracy |-> ra,
   estimated_token_size |-> ts, complexity_score |-> score, confidence |-> conf]

\* obj.<field> for a string-valued field: undefined when the key is absent.
GetStr(obj, field) == IF field \in obj.absent THEN "undefined" ELSE obj[field]

\* Number(obj.<field>) || dflt: NaN (also of undefined) and 0 are falsy.
NumberOr(obj, field, dflt) ==
  IF field \in obj.absent \/ obj[field].nan \/ obj[field].val = 0
    THEN dflt
    ELSE obj[field].val

\* validValues.includes(value) ? value : dflt
OneOf(value, validValues, dflt) == IF value \in validValues THEN value ELSE dflt

NullEvaluation == [isNull |-> TRUE, evaluation |-> getDefaultEvaluation]

SomeEvaluation(e) == [isNull |-> FALSE, evaluation |-> e]

\* validateEvaluation(raw): null when raw is not an object (the in operator
\* throws, which the method catches) or when a required key is absent; else
\* the field-by-field normalised evaluation.
validateEvaluationFields(obj) ==
  Evaluation(
    OneOf(GetStr(obj, "reasoning_depth"), ReasoningDepths, "medium"),
    OneOf(GetStr(obj, "task_type"), TaskTypes, "other"),
    OneOf(GetStr(obj, "constraint_level"), ConstraintLevels, "medium"),
    OneOf(GetStr(obj, "required_accuracy"), AccuracyRequirements, "medium"),
    OneOf(GetStr(obj, "estimated_token_size"), TokenSizes, "medium"),
    Min(100, Max(0, NumberOr(obj, "complexity_score", 50))),
    Min(1000, Max(0, NumberOr(obj, "confidence", 500))))

validateEvaluation(isObject, obj) ==
  IF ~isObject THEN NullEvaluation
  ELSE IF \E field \in FieldNames : field \in obj.absent THEN NullEvaluation
  ELSE SomeEvaluation(validateEvaluationFields(obj))

\* Mutant: the accuracy term is left out of the sum.
recalculateScore_NoAccuracy(evaluation) ==
  Min(100, REASONING_DEPTH_SCORES[evaluation.reasoning_depth]
           + TASK_TYPE_SCORES[evaluation.task_type]
           + CONSTRAINT_LEVEL_SCORES[evaluation.constraint_level])

recalculateScore(evaluation) ==
  Min(100, REASONING_DEPTH_SCORES[evaluation.reasoning_depth]
           + TASK_TYPE_SCORES[evaluation.task_type]
           + CONSTRAINT_LEVEL_SCORES[evaluation.constraint_level]
           + ACCURACY_SCORES[evaluation.required_accuracy])

(* ------------- the body of the auxiliary model's HTTP response -------- *)

\* kind:    "badbody"   response.json() rejects
\*          "nocontent" choices[0].message.content is missing or empty
\*          "content"   a content string
\* fence:   how the trimmed content is wrapped
\*          "none"      no code fence
\*          "json"      ```json\n ... \n```
\*          "plain"     ```\n ... \n```
\*          "other"     ```js\n ... \n```   (another language tag)
\*          "unclosed"  ```json\n ...  followed by text after the closing fence
\* payload: "text" (not JSON), "nonobject" (null, a number, a string) or
\*          "object" (obj)
Body(kind, fence, payload, obj) ==
  [kind |-> kind, fence |-> fence, payload |-> payload, obj |-> obj]

\* Lines 354-359: trim, strip a leading ```(json)?\n? and a trailing \n?```
\* when the content starts with ```, then JSON.parse. TRUE iff JSON.parse
\* returns (the two regular expressions leave exactly the payload).
JsonParses(body) ==
  /\ body.payload # "text"
  /\ body.fence \in {"none", "json", "plain"}

\* Mutant: line 374 is missing, the validated evaluation keeps the score the
\* reply reported.
EvaluateBody_KeepsReportedScore(body) ==
  IF body.kind # "content" \/ ~JsonParses(body)
    THEN [evaluation |-> getDefaultEvaluation, store |-> FALSE, usedCatch |-> TRUE]
    ELSE LET v == validateEvaluation(body.payload = "object", body.obj)
         IN  IF v.isNull
               THEN [evaluation |-> getDefaultEvaluation, store |-> FALSE,
                     usedCatch |-> FALSE]
               ELSE [evaluation |-> v.evaluation, store |-> TRUE,
                     usedCatch |-> FALSE]

\* The outcome of lines 346-389 for a response body: what evaluate returns
\* and whether it calls setCache. usedCatch tells that the catch block ran
\* (latencyMs is then measured again).
EvaluateBody(body) ==
  IF body.kind # "content" \/ ~JsonParses(body)
    THEN [evaluation |-> getDefaultEvaluation, store |-> FALSE, usedCatch |-> TRUE]
    ELSE LET v == validateEvaluation(body.payload = "object", body.obj)
         IN  IF v.isNull
               THEN [evaluation |-> getDefaultEvaluation, store |-> FALSE,
                     usedCatch |-> FALSE]
               ELSE [evaluation |->
                       [v.evaluation EXCEPT
                          !.complexity_score = recalculateScore(v.evaluation)],
                     store |-> TRUE, usedCatch |-> FALSE]

(* -------------------------------- the cache --------------------------- *)

CacheEntry(key, evaluation, timestamp) ==
  [key |-> key, evaluation |-> evaluation, timestamp |-> timestamp]

CacheKeys(c) == {c[i].key : i \in 1..Len(c)}

\* this.cache.get(hash): <<entry>> or <<>> (undefined).
CacheGet(c, hash) == SelectSeq(c, LAMBDA e : e.key = hash)

\* this.cache.delete(key)
CacheDelete(c, keys) == SelectSeq(c, LAMBDA e : e.key \notin keys)

\* this.cache.set(key, value): an existing key keeps its place in the
\* iteration order, a new key goes last.
CacheSet(c, entry) ==
  IF entry.key \in CacheKeys(c)
    THEN [i \in 1..Len(c) |-> IF c[i].key = entry.key THEN entry ELSE c[i]]
    ELSE Append(c, entry)

\* Mutant: the age is taken the wrong way round, so no entry ever expires.
getCached_AgeReversed(c, hash, t) ==
  LET found == CacheGet(c, hash)
  IN  IF found = <<>>
        THEN [hit |-> FALSE, evaluation |-> getDefaultEvaluation, cache |-> c]
      ELSE IF found[1].timestamp - t > CacheTtlMs
        THEN [hit |-> FALSE, evaluation |-> getDefaultEvaluation,
              cache |-> CacheDelete(c, {hash})]
      ELSE [hit |-> TRUE, evaluation |-> found[1].evaluation, cache |-> c]

\* getCached(hash) at time t: the entry's evaluation unless age > cacheTtlMs,
\* in which case the entry is deleted. hit tells whether it returned one.
getCached(c, hash, t) ==
  LET found == CacheGet(c, hash)
  IN  IF found = <<>>
        THEN [hit |-> FALSE, evaluation |-> getDefaultEvaluation, cache |-> c]
      ELSE IF t - found[1].timestamp > CacheTtlMs
        THEN [hit |-> FALSE, evaluation |-> getDefaultEvaluation,
              cache |-> CacheDelete(c, {hash})]
      ELSE [hit |-> TRUE, evaluation |-> found[1].evaluation, cache |-> c]

\* Mutant: the comparator is b - a, newest first.
RECURSIVE SortByTimestamp_Descending(_)
SortByTimestamp_Descending(entries) ==
  IF entries = <<>> THEN <<>>
  ELSE LET last   == entries[Len(entries)]
           sorted == SortByTimestamp_Descending(SubSeq(entries, 1, Len(entries) - 1))
           before == SelectSeq(sorted, LAMBDA e : e.timestamp >= last.timestamp)
           after  == SelectSeq(sorted, LAMBDA e : e.timestamp < last.timestamp)
       IN  before \o <<last>> \o after

\* entries.sort((a, b) => a[1].timestamp - b[1].timestamp): a stable sort.
RECURSIVE SortByTimestamp(_)
SortByTimestamp(entries) ==
  IF entries = <<>> THEN <<>>
  ELSE LET last   == entries[Len(entries)]
           sorted == SortByTimestamp(SubSeq(entries, 1, Len(entries) - 1))
           before == SelectSeq(sorted, LAMBDA e : e.timestamp <= last.timestamp)
           after  == SelectSeq(sorted, LAMBDA e : e.timestamp > last.timestamp)
       IN  before \o <<last>> \o after

\* Mutant: the cleanup of lines 186-193 is missing.
setCache_NoEviction(c, hash, evaluation, t) ==
  CacheSet(c, CacheEntry(hash, evaluation, t))

\* setCache(hash, evaluation) at time t.
setCache(c, hash, evaluation, t) ==
  LET c1 == CacheSet(c, CacheEntry(hash, evaluation, t))
  IN  IF Len(c1) > MaxCacheEntries
        THEN LET entries  == SortByTimestamp(c1)
                 toDelete == SubSeq(entries, 1, Len(entries) - MaxCacheEntries)
             IN  CacheDelete(c1, {toDelete[i].key : i \in 1..Len(toDelete)})
        ELSE c1

(* ----------------------------- RoutingEngine -------------------------- *)

DEFAULT_THRESHOLDS == [proThreshold |-> 75, midThreshold |-> 35]

\* A constructor that takes the overrides only when both are given.
RoutingEngineThresholds_BothOrNone(partial) ==
  IF partial.proThreshold # <<>> /\ partial.midThreshold # <<>>
    THEN [proThreshold |-> partial.proThreshold[1],
          midThreshold |-> partial.midThreshold[1]]
    ELSE DEFAULT_THRESHOLDS

\* The constructor, line 49: { ...DEFAULT_THRESHOLDS, ...thresholds }.
RoutingEngineThresholds(partial) ==
  [proThreshold |-> IF partial.proThreshold = <<>>
                      THEN DEFAULT_THRESHOLDS.proThreshold
                      ELSE partial.proThreshold[1],
   midThreshold |-> IF partial.midThreshold = <<>>
                      THEN DEFAULT_THRESHOLDS.midThreshold
                      ELSE partial.midThreshold[1]]

MID_PREFERRED_TASKS == {"visualization", "writing", "summarization"}

PRO_PREFERRED_TASKS ==
  {"architecture_design", "mathematical_reasoning", "multi_step_planning"}

\* confidence.toFixed(2): thousandths rounded to hundredths. (A value ending
\* in 5 thousandths would round by its binary expansion; the model uses none.)
toFixed2(confidence) == (confidence + 5) \div 10

\* The reasoning template literal: its fixed text and the values spliced in
\* (0 or "" where the template has no such value).
Reasoning(text, task, score, confidence, threshold) ==
  [text |-> text, task |-> task, score |-> score, confidence |-> confidence,
   threshold |-> threshold]

\* buildDecision(tier, evaluation, reasoning, cached)
buildDecision(tier, evaluation, reasoning, cached) ==
  [tier |-> tier, score |-> evaluation.complexity_score,
   taskType |-> evaluation.task_type, confidence |-> evaluation.confidence,
   reasoning |-> reasoning, cached |-> cached]

\* Mutant: the mid band starts above midThreshold, not at it.
decideByScore_StrictMid(th, evaluation, cached) ==
  LET complexity_score == evaluation.complexity_score
  IN  IF complexity_score >= th.proThreshold
        THEN buildDecision("pro", evaluation,
               Reasoning("Score s >= th -> PRO", "", complexity_score, 0,
                         th.proThreshold), cached)
      ELSE IF complexity_score > th.midThreshold
        THEN buildDecision("mid", evaluation,
               Reasoning("Score s >= th -> MID", "", complexity_score, 0,
                         th.midThreshold), cached)
      ELSE buildDecision("low", evaluation,
               Reasoning("Score s < th -> LOW", "", complexity_score, 0,
                         th.midThreshold), cached)

\* Lines 111-123 of decide: the default banding of the score.
decideByScore(th, evaluation, cached) ==
  LET complexity_score == evaluation.complexity_score
  IN  IF complexity_score >= th.proThreshold
        THEN buildDecision("pro", evaluation,
               Reasoning("Score s >= th -> PRO", "", complexity_score, 0,
                         th.proThreshold), cached)
      ELSE IF complexity_score >= th.midThreshold
        THEN buildDecision("mid", evaluation,
               Reasoning("Score s >= th -> MID", "", complexity_score, 0,
                         th.midThreshold), cached)
      ELSE buildDecision("low", evaluation,
               Reasoning("Score s < th -> LOW", "", complexity_score, 0,
                         th.midThreshold), cached)

\* Mutant: rule 3 distrusts every score above 90, whatever the confidence.
decideAfterConfidence_DistrustsHighScore(th, evaluation, cached) ==
  LET complexity_score == evaluation.complexity_score
      task_type        == evaluation.task_type
      confidence       == evaluation.confidence
  IN  IF complexity_score > 90
        THEN buildDecision("mid", evaluation,
               Reasoning("High score (s) but low confidence (c) -> MID", "",
                         complexity_score, toFixed2(confidence), 0), cached)
      ELSE IF task_type \in MID_PREFERRED_TASKS /\ complexity_score < 70
        THEN buildDecision("mid", evaluation,
               Reasoning("t task prefers MID (score: s)", task_type,
                         complexity_score, 0, 0), cached)
      ELSE IF task_type = "coding" /\ complexity_score < 70
        THEN buildDecision("mid", evaluation,
               Reasoning("Coding task with score s stays in MID", "",
                         complexity_score, 0, 0), cached)
      ELSE IF task_type \in PRO_PREFERRED_TASKS /\ complexity_score >= 65
        THEN buildDecision("pro", evaluation,
               Reasoning("t with score s -> PRO", task_type,
                         complexity_score, 0, 0), cached)
      ELSE decideByScore(th, evaluation, cached)

\* Lines 79-123 of decide: rules 3 to 6, then the banding.
decideAfterConfidence(th, evaluation, cached) ==
  LET complexity_score == evaluation.complexity_score
      task_type        == evaluation.task_type
      confidence       == evaluation.confidence
  IN  IF complexity_score > 90 /\ confidence < 700
        THEN buildDecision("mid", evaluation,
               Reasoning("High score (s) but low confidence (c) -> MID", "",
                         complexity_score, toFixed2(confidence), 0), cached)
      ELSE IF task_type \in MID_PREFERRED_TASKS /\ complexity_score < 70
        THEN buildDecision("mid", evaluation,
               Reasoning("t task prefers MID (score: s)", task_type,
                         complexity_score, 0, 0), cached)
      ELSE IF task_type = "coding" /\ complexity_score < 70
        THEN buildDecision("mid", evaluation,
               Reasoning("Coding task with score s stays in MID", "",
                         complexity_score, 0, 0), cached)
      ELSE IF task_type \in PRO_PREFERRED_TASKS /\ complexity_score >= 65
        THEN buildDecision("pro", evaluation,
               Reasoning("t with score s -> PRO", task_type,
                         complexity_score, 0, 0), cached)
      ELSE decideByScore(th, evaluation, cached)

\* Mutant: the confidence rule is tested before the token-size rule.
decide_ConfidenceBeforeTokenSize(th, evaluation, cached) ==
  IF evaluation.confidence < 600
    THEN buildDecision("mid", evaluation,
           Reasoning("Low confidence (c) defaults to MID", "", 0,
                     toFixed2(evaluation.confidence), 0), cached)
  ELSE IF evaluation.estimated_token_size = "very_large"
    THEN buildDecision("pro", evaluation,
           Reasoning("Very large token size forces PRO", "", 0, 0, 0), cached)
  ELSE decideAfterConfidence(th, evaluation, cached)

\* Mutant: the confidence rule fires below 0.5 instead of below 0.6.
decide_ConfidenceBelowHalf(th, evaluation, cached) ==
  IF evaluation.estimated_token_size = "very_large"
    THEN buildDecision("pro", evaluation,
           Reasoning("Very large token size forces PRO", "", 0, 0, 0), cached)
  ELSE IF evaluation.confidence < 500
    THEN buildDecision("mid", evaluation,
           Reasoning("Low confidence (c) defaults to MID", "", 0,
                     toFixed2(evaluation.confidence), 0), cached)
  ELSE decideAfterConfidence(th, evaluation, cached)

\* decide(evaluation, cached) of an engine whose thresholds are th: rules 1
\* and 2, then the rest.
decide(th, evaluation, cached) ==
  IF evaluation.estimated_token_size = "very_large"
    THEN buildDecision("pro", evaluation,
           Reasoning("Very large token size forces PRO", "", 0, 0, 0), cached)
  ELSE IF evaluation.confidence < 600
    THEN buildDecision("mid", evaluation,
           Reasoning("Low confidence (c) defaults to MID", "", 0,
                     toFixed2(evaluation.confidence), 0), cached)
  ELSE decideAfterConfidence(th, evaluation, cached)

(* ------------------------ HelixProxy: forwarding ---------------------- *)

\* ProxyConfig.providers: one backend per tier.
Providers ==
  [pro |-> [baseUrl |-> "url-pro", model |-> "model-pro"],
   mid |-> [baseUrl |-> "url-mid", model |-> "model-mid"],
   low |-> [baseUrl |-> "url-low", model |-> "model-low"]]

\* ChatCompletionRequest: messages is <<>> when the request has no messages
\* array, else <<the conversation>>; the other fields of the body travel
\* with the record unchanged.
ChatCompletionRequest(model, messages, stream) ==
  [model |-> model, messages |-> messages, stream |-> stream]

\* RoutingEngine.getProvider(tier)
getProvider(tier) == Providers[tier]

\* A backend call: the provider whose URL is fetched and the JSON body sent.
BackendCall(baseUrl, body) == [baseUrl |-> baseUrl, body |-> body]

\* Forwarding that always sends the routed provider's model.
forwardRequest_RoutedModel(request, provider) ==
  BackendCall(provider.baseUrl, [request EXCEPT !.model = provider.model])

\* forwardRequest, lines 399-431: the body is the request with model
\* replaced, by the explicitly named tier's model if the request names one.
forwardRequest(request, provider) ==
  LET model ==
        IF request.model \in {"helix-router/pro", "pro"}
          THEN getProvider("pro").model
        ELSE IF request.model \in {"helix-router/mid", "mid"}
          THEN getProvider("mid").model
        ELSE IF request.model \in {"helix-router/low", "low"}
          THEN getProvider("low").model
        ELSE provider.model
  IN  BackendCall(provider.baseUrl, [request EXCEPT !.model = model])

\* The stream request of handleStreamRequest, lines 459-472.
streamRequest(request, provider) ==
  BackendCall(provider.baseUrl,
              [request EXCEPT !.model = provider.model, !.stream = TRUE])

\* What the latest backend fetch gave: ok is response.ok; body is what
\* response.json() finds ("completion", "error", or "notjson" when it
\* rejects), or for a streaming call "stream" (a body to read), "nobody",
\* and "readerror" once a read of the body has rejected. A fetch that
\* rejected gives Rejected; NoResponse stands before any fetch has settled.
BackendResponse(ok, body) == [ok |-> ok, body |-> body]

NoResponse == BackendResponse(FALSE, "none")

Rejected == BackendResponse(FALSE, "rejected")

\* What the HTTP caller has been sent: the status (0 before writeHead), the
\* JSON body of a non-streaming answer, the events of a streaming one, and
\* whether res.end() was called.
ClientState(status, body, events, ended) ==
  [status |-> status, body |-> body, events |-> events, ended |-> ended]

NoClient == ClientState(0, "none", <<>>, FALSE)

(* --------------------- HelixProxy: the stream loop -------------------- *)

\* Text is a sequence of one-character strings.
DataPrefix == <<"d", "a", "t", "a", ":">>

DoneText == <<"[", "D", "O", "N", "E", "]">>

\* String.prototype.trim removes white space and line terminators.
IsSpace(ch) == ch \in {" ", "\t", "\r", "\n"}

RECURSIVE TrimStart(_)
TrimStart(text) ==
  IF text # <<>> /\ IsSpace(Head(text)) THEN TrimStart(Tail(text)) ELSE text

RECURSIVE TrimEnd(_)
TrimEnd(text) ==
  IF text # <<>> /\ IsSpace(text[Len(text)])
    THEN TrimEnd(SubSeq(text, 1, Len(text) - 1))
    ELSE text

Trim(text) == TrimEnd(TrimStart(text))

StartsWith(text, prefix) ==
  Len(text) >= Len(prefix) /\ SubSeq(text, 1, Len(prefix)) = prefix

\* text.split("\n"): the pieces between the newlines, one more than there
\* are newlines.
RECURSIVE SplitLines(_)
SplitLines(text) ==
  IF \A i \in 1..Len(text) : text[i] # "\n"
    THEN << text >>
    ELSE LET i == CHOOSE j \in 1..Len(text) :
                    text[j] = "\n" /\ \A k \in 1..(j - 1) : text[k] # "\n"
         IN  << SubSeq(text, 1, i - 1) >> \o SplitLines(SubSeq(text, i + 1, Len(text)))

\* The JSON texts of the model: two objects ({} and { }), two values that
\* parse but are no objects; every other text makes JSON.parse throw.
JsonObjects == { <<"{", "}">>, <<"{", " ", "}">> }

JsonPrimitives == { <<"n", "u", "l", "l">>, <<"0">> }

\* A chunk written to the caller as one server-sent event.
StreamChunk(kind, data, model) == [kind |-> kind, data |-> data, model |-> model]

\* Lines 506-518: JSON.parse and the assignment of chunk.model both succeed
\* only for a text that parses to an object; anything else ends in the
\* empty catch.
ParsesToChunk(data) == data \in JsonObjects

\* Line 509: `helix-router/${decision.tier}`.
RouterModel(tier) ==
  CASE tier = "pro" -> "helix-router/pro"
    [] tier = "mid" -> "helix-router/mid"
    [] tier = "low" -> "helix-router/low"

\* Lines 497-518 for one line: the chunks it yields (none or one). The chunk
\* made for the end marker, line 502, carries provider.model.
StreamLine(line, tier, providerModel) ==
  LET trimmed == Trim(line)
  IN  IF trimmed = <<>> \/ ~StartsWith(trimmed, DataPrefix)
        THEN <<>>
        ELSE LET data == Trim(SubSeq(trimmed, 6, Len(trimmed)))
             IN  IF data = DoneText
                   THEN << StreamChunk("stop", <<>>, providerModel) >>
                 ELSE IF ParsesToChunk(data)
                   THEN << StreamChunk("chunk", data, RouterModel(tier)) >>
                 ELSE <<>>

\* A loop that abandons the remaining lines of a read at a malformed payload.
RECURSIVE StreamLines_StopAtMalformed(_, _, _)
StreamLines_StopAtMalformed(lines, tier, providerModel) ==
  IF lines = <<>> THEN <<>>
  ELSE LET trimmed == Trim(Head(lines))
           bad == /\ StartsWith(trimmed, DataPrefix)
                  /\ Trim(SubSeq(trimmed, 6, Len(trimmed))) # DoneText
                  /\ ~ParsesToChunk(Trim(SubSeq(trimmed, 6, Len(trimmed))))
       IN  IF bad THEN <<>>
           ELSE StreamLine(Head(lines), tier, providerModel)
                  \o StreamLines_StopAtMalformed(Tail(lines), tier, providerModel)

\* Lines 496-519: the chunks the complete lines of one read yield, in order.
RECURSIVE StreamLines(_, _, _)
StreamLines(lines, tier, providerModel) ==
  IF lines = <<>> THEN <<>>
  ELSE StreamLine(Head(lines), tier, providerModel)
         \o StreamLines(Tail(lines), tier, providerModel)

\* A read that parses the whole buffer, the unfinished last line included.
StreamRead_ParsesPartialLine(buffer, value, tier, providerModel) ==
  LET lines == SplitLines(buffer \o value)
  IN  [buffer |-> <<>>, yields |-> StreamLines(lines, tier, providerModel)]

\* Lines 492-519 for one read: the new buffer and the chunks yielded.
StreamRead(buffer, value, tier, providerModel) ==
  LET lines == SplitLines(buffer \o value)
  IN  [buffer |-> lines[Len(lines)],
       yields |-> StreamLines(SubSeq(lines, 1, Len(lines) - 1), tier, providerModel)]

(* --------------------- StatsTracker and HelixLogger ------------------- *)

\* Math.round(a / b) for integers a >= 0, b > 0: halves round up. (The
\* double a / b is the exact quotient whenever the quotient is an integer
\* plus one half, and elsewhere lies on the same side of it.)
MathRoundQuotient(a, b) == (2 * a + b) \div (2 * b)

\* IEEE 754 doubles, as far as line 65 needs them. A positive double is a
\* sequence of bits, most significant first, with the number of those bits
\* that lie behind the binary point.
Double(bits, scale) == [bits |-> bits, scale |-> scale]

\* 2^i modulo n, ten doublings at a time.
RECURSIVE Pow2Mod(_, _)
Pow2Mod(i, n) ==
  IF i <= 10 THEN (2 ^ i) % n ELSE (1024 * Pow2Mod(i - 10, n)) % n

\* What is left of c / n (0 < c < n) behind its first k bits behind the
\* binary point, as a numerator over n.
DivRemainder(c, n, k) == (c * Pow2Mod(k, n)) % n

\* Bit k (k >= 1) behind the binary point of c / n (0 < c < n).
DivBit(c, n, k) == IF 2 * DivRemainder(c, n, k - 1) >= n THEN 1 ELSE 0

\* How many zero bits c / n (0 < c < n) has behind the binary point before
\* its first one bit.
LeadingZeros(c, n) == CHOOSE z \in 0..30 : c * 2 ^ z < n /\ n <= c * 2 ^ (z + 1)

Zeros(k) == [i \in 1..k |-> 0]

\* bits + 1
Increment(bits) ==
  LET zeros == { i \in 1..Len(bits) : bits[i] = 0 }
  IN  IF zeros = {} THEN << 1 >> \o Zeros(Len(bits))
      ELSE LET last == CHOOSE i \in zeros : \A j \in zeros : j <= i
           IN  [i \in 1..Len(bits) |->
                  IF i < last THEN bits[i] ELSE IF i = last THEN 1 ELSE 0]

\* Round to nearest, ties to even: the 53 kept bits, the bit after them and
\* whether anything non-zero follows that.
RoundToNearestEven(kept, guard, sticky) ==
  IF guard = 1 /\ (sticky \/ kept[Len(kept)] = 1) THEN Increment(kept) ELSE kept

\* The double c / n, for 0 < c < n.
DoubleQuotient(c, n) ==
  LET z == LeadingZeros(c, n)
  IN  Double(RoundToNearestEven([i \in 1..53 |-> DivBit(c, n, z + i)],
                                DivBit(c, n, z + 54),
                                DivRemainder(c, n, z + 54) # 0),
             z + 53)

\* The bit of weight 2^w in a bit sequence read as a natural number.
BitAt(bits, w) == IF w < Len(bits) THEN bits[Len(bits) - w] ELSE 0

\* Ten bits of a bit sequence, those of weight 2^(10 j) and up, as a number.
Limb(bits, j) ==
  LET S[t \in 0..10] ==
        IF t = 0 THEN 0 ELSE S[t - 1] + BitAt(bits, 10 * j + t - 1) * 2 ^ (t - 1)
  IN  S[10]

\* 100 * bits, as a bit sequence without leading zeros, for bits that start
\* with a one bit: 100 lies between 2^6 and 2^7, so the product has six or
\* seven bits more.
Times100(bits) ==
  LET limbs == (Len(bits) + 9) \div 10
      T[j \in 0..limbs] ==
        100 * Limb(bits, j) + (IF j = 0 THEN 0 ELSE T[j - 1] \div 1024)
      ProductBit(w) == (T[w \div 10] \div 2 ^ (w % 10)) % 2
      top == CHOOSE w \in { Len(bits) + 5, Len(bits) + 6 } :
               ProductBit(w) = 1 /\ ProductBit(w + 1) = 0
  IN  [i \in 1..(top + 1) |-> ProductBit(top + 1 - i)]

\* The double x * 100: the exact product rounded to 53 significant bits.
DoubleTimes100(x) ==
  LET p == Times100(x.bits)
      dropped == Len(p) - 53
  IN  IF dropped <= 0 THEN Double(p, x.scale)
      ELSE Double(RoundToNearestEven(SubSeq(p, 1, 53), p[54],
                                     \E i \in 55..Len(p) : p[i] = 1)
                    \o Zeros(dropped),
                  x.scale)

\* Math.round of a positive double below 1024: the integer part, plus one
\* when the first bit behind the binary point is set.
MathRoundDouble(x) ==
  LET whole == SubSeq(x.bits, 1, Len(x.bits) - x.scale)
  IN  Limb(whole, 0) + BitAt(x.bits, x.scale - 1)

\* Line 65: Math.round((this.cacheHits / this.stats.totalRequests) * 100),
\* for 0 <= cacheHits <= totalRequests, totalRequests > 0.
cacheHitRate(cacheHits, totalRequests) ==
  IF cacheHits = 0 THEN 0
  ELSE IF cacheHits = totalRequests THEN 100
  ELSE MathRoundDouble(DoubleTimes100(DoubleQuotient(cacheHits, totalRequests)))

\* RoutingLogEntry, lines 155-171 of types.ts, without its timestamp, token
\* counts, confidence and prompt hash, which nothing reads back.
RoutingLogEntry(requestId, score, route, modelUsed, taskType, latencyMs, evaluationLatencyMs, cached) ==
  [requestId |-> requestId, score |-> score, route |-> route,
   modelUsed |-> modelUsed, taskType |-> taskType, latencyMs |-> latencyMs,
   evaluationLatencyMs |-> evaluationLatencyMs, cached |-> cached]

\* The object literals of lines 32-33 and 76-77. A task type that has no
\* property yet counts 0 (lines 51-53 treat the two alike).
NewRouteCounts == [t \in RouteTiers |-> 0]

NewTaskTypeCounts == [t \in TaskTypes |-> 0]

\* The Stats object of lines 30-39 and 74-83, without lastUpdated. Its
\* routeCounts and taskTypeCounts are references to objects on the heap.
NewStats(routeCounts, taskTypeCounts) ==
  [totalRequests |-> 0, routeCounts |-> routeCounts,
   taskTypeCounts |-> taskTypeCounts, avgScore |-> 0, avgLatencyMs |-> 0,
   avgEvaluationMs |-> 0, cacheHitRate |-> 0]

\* A StatsTracker and the heap its objects live on.
Tracked(tracker, heap) == [tracker |-> tracker, heap |-> heap]

\* new StatsTracker(), lines 30-44.
NewStatsTracker ==
  Tracked([stats |-> NewStats(1, 2), totalScore |-> 0, totalLatency |-> 0,
           totalEvaluation |-> 0, cacheHits |-> 0],
          << NewRouteCounts, NewTaskTypeCounts >>)

\* A tracker whose running sums are left out of the averages.
record_AveragesOfLastEntry(t, entry) ==
  LET n         == t.tracker.stats.totalRequests + 1
      cacheHits == t.tracker.cacheHits + (IF entry.cached THEN 1 ELSE 0)
      stats     == t.tracker.stats
  IN  Tracked([stats |-> [stats EXCEPT !.totalRequests = n,
                                       !.avgScore = entry.score,
                                       !.avgLatencyMs = entry.latencyMs,
                                       !.avgEvaluationMs = entry.evaluationLatencyMs,
                                       !.cacheHitRate = cacheHitRate(cacheHits, n)],
               totalScore |-> t.tracker.totalScore + entry.score,
               totalLatency |-> t.tracker.totalLatency + entry.latencyMs,
               totalEvaluation |-> t.tracker.totalEvaluation + entry.evaluationLatencyMs,
               cacheHits |-> cacheHits],
              [t.heap EXCEPT ![stats.routeCounts][entry.route] = @ + 1,
                             ![stats.taskTypeCounts][entry.taskType] = @ + 1])

\* record, lines 46-67.
record(t, entry) ==
  LET n               == t.tracker.stats.totalRequests + 1
      totalScore      == t.tracker.totalScore + entry.score
      totalLatency    == t.tracker.totalLatency + entry.latencyMs
      totalEvaluation == t.tracker.totalEvaluation + entry.evaluationLatencyMs
      cacheHits       == t.tracker.cacheHits + (IF entry.cached THEN 1 ELSE 0)
      stats           == t.tracker.stats
  IN  Tracked([stats |-> [stats EXCEPT !.totalRequests = n,
                                       !.avgScore = MathRoundQuotient(totalScore, n),
                                       !.avgLatencyMs = MathRoundQuotient(totalLatency, n),
                                       !.avgEvaluationMs = MathRoundQuotient(totalEvaluation, n),
                                       !.cacheHitRate = cacheHitRate(cacheHits, n)],
               totalScore |-> totalScore, totalLatency |-> totalLatency,
               totalEvaluation |-> totalEvaluation, cacheHits |-> cacheHits],
              [t.heap EXCEPT ![stats.routeCounts][entry.route] = @ + 1,
                             ![stats.taskTypeCounts][entry.taskType] = @ + 1])

\* getStats, lines 69-71: a new object with the properties of this.stats,
\* the two references among them.
getStats(t) == t.tracker.stats

\* A reset that leaves the running sums standing.
reset_KeepsRunningSums(t) ==
  Tracked([t.tracker EXCEPT !.stats = NewStats(Len(t.heap) + 1, Len(t.heap) + 2)],
          t.heap \o << NewRouteCounts, NewTaskTypeCounts >>)

\* reset, lines 73-88: a new Stats object with new count objects, and the
\* running sums at 0.
reset(t) ==
  Tracked([stats |-> NewStats(Len(t.heap) + 1, Len(t.heap) + 2),
           totalScore |-> 0, totalLatency |-> 0, totalEvaluation |-> 0,
           cacheHits |-> 0],
          t.heap \o << NewRouteCounts, NewTaskTypeCounts >>)

\* What a holder of a Stats object reads from it: its own properties, and
\* behind the two references what the heap holds now.
ReadStats(stats, heap) ==
  [stats EXCEPT !.routeCounts = heap[@], !.taskTypeCounts = heap[@]]

\* What logRouting leaves behind: the log file, the tracker with its heap,
\* and whether it threw.
Logged(file, t, threw) == [file |-> file, t |-> t, threw |-> threw]

\* A logRouting without its try block.
logRouting_Rethrows(file, t, entry, enabled, appendWorks) ==
  IF ~enabled THEN Logged(file, t, FALSE)
  ELSE IF appendWorks THEN Logged(Append(file, entry), record(t, entry), FALSE)
  ELSE Logged(file, t, TRUE)

\* A logRouting that updates the statistics before it writes the line.
logRouting_RecordsBeforeAppend(file, t, entry, enabled, appendWorks) ==
  IF ~enabled THEN Logged(file, t, FALSE)
  ELSE IF appendWorks THEN Logged(Append(file, entry), record(t, entry), FALSE)
  ELSE Logged(file, record(t, entry), FALSE)

\* logRouting, lines 113-136: nothing when logging is off; else the entry is
\* appended to the file and recorded, and a failure of the append is caught
\* before anything is recorded.
logRouting(file, t, entry, enabled, appendWorks) ==
  IF ~enabled THEN Logged(file, t, FALSE)
  ELSE IF appendWorks THEN Logged(Append(file, entry), record(t, entry), FALSE)
  ELSE Logged(file, t, FALSE)

(* ------------------------------- inputs ------------------------------- *)

Procs == {1, 2}

Msg(role, content) == [role |-> role, content |-> content]

\* Conversations (content as code units: a = 97, b = 98, c = 99, | = 124).
\* The first two have the same user turns.
Conversations ==
  { << Msg("user", <<97>>) >>,
    << Msg("system", <<98>>), Msg("user", <<97>>) >>,
    << Msg("user", <<97>>), Msg("assistant", <<99>>), Msg("user", <<98>>) >>,
    << Msg("user", <<99>>) >> }

NoObject == RawObject({}, "medium", "other", "medium", "medium", "medium", NaN, NaN)

\* Parsed replies the auxiliary model can give.
ReplyObjects ==
  { RawObject({}, "low", "classification", "low", "low", "small", Num(25), Num(900)),
    RawObject({}, "high", "architecture_design", "high", "high", "very_large",
              Num(7), Num(650)),
    RawObject({}, "deep", "coding", "high", "n/a", "huge", NaN, Num(0)),
    RawObject({"confidence"}, "high", "coding", "low", "high", "large",
              Num(70), Num(800)) }

\* Response bodies of the auxiliary call.
Bodies ==
  { Body("badbody", "none", "text", NoObject),
    Body("nocontent", "none", "text", NoObject),
    Body("content", "none", "text", NoObject),
    Body("content", "none", "nonobject", NoObject) }
  \cup { Body("content", "none", "object", o) : o \in ReplyObjects }
  \cup { Body("content", f, "object",
              RawObject({}, "low", "classification", "low", "low", "small",
                        Num(25), Num(900))) : f \in {"json", "other", "unclosed"} }

\* Every shape of parsed reply the validation distinguishes: each field
\* valid, invalid or (for some keys) absent.
AllReplyObjects ==
  { RawObject(absent, rd, tt, cl, ra, ts, score, conf) :
      absent \in {{}, {"task_type"}, {"confidence"}, FieldNames},
      rd \in ReasoningDepths \cup {"deep"},
      tt \in TaskTypes \cup {"chat"},
      cl \in ConstraintLevels \cup {"none"},
      ra \in AccuracyRequirements \cup {"n/a"},
      ts \in {"very_large", "huge"},
      score \in {Num(0), Num(250), NaN},
      conf \in {Num(0), Num(650), Num(1500), NaN} }

AllBodies ==
  Bodies \cup { Body("content", "plain", "object", o) : o \in AllReplyObjects }

\* Evaluations handed to decide: any score, whatever the categorical fields.
DecideEvaluations ==
  { Evaluation("medium", tt, "medium", "medium", ts, score, conf) :
      tt \in TaskTypes,
      ts \in {"small", "very_large"},
      score \in {0, 34, 35, 50, 64, 65, 69, 70, 74, 75, 90, 91, 100},
      conf \in {0, 400, 599, 600, 650, 699, 700, 1000} }

ThresholdPairs ==
  { [proThreshold |-> pro, midThreshold |-> mid] :
      pro \in {50, 75, 95}, mid \in {20, 35, 80} }

\* The thresholds argument of the RoutingEngine constructor: each key is
\* absent (<<>>) or carries a value (<<n>>).
PartialThresholds(pro, mid) == [proThreshold |-> pro, midThreshold |-> mid]

NoThresholds == PartialThresholds(<<>>, <<>>)

ThresholdConfigs ==
  { PartialThresholds(<<th.proThreshold>>, <<th.midThreshold>>) :
      th \in ThresholdPairs }
  \cup { PartialThresholds(<<pro>>, <<>>) : pro \in {50, 95} }
  \cup { PartialThresholds(<<>>, <<mid>>) : mid \in {20, 80} }
  \cup { NoThresholds }

\* How the fetch promise settles: it rejects, resolves with a non-2xx status,
\* or resolves with response.ok.
FetchOutcomes == {"reject", "status", "ok"}

(* ------------------------------- state -------------------------------- *)

VARIABLES
  now,        \* Date.now()
  cache,      \* ComplexityEvaluator.cache, in insertion order
  pc,         \* per request: "idle", "awaitFetch", "awaitBody", "evaluated"
  req,        \* per request: the messages of its latest evaluate call
  startTime,  \* per request: the clock when its latest evaluate call began
  ret,        \* per request: what its latest evaluate call returned
  aux,        \* per request: the auxiliary call of its latest evaluate call
  routing,    \* the thresholds argument the RoutingEngine was constructed with
  thresholds, \* RoutingEngine.thresholds
  replyBody,  \* a response body given to lines 346-389 of evaluate
  replyOut,   \* <<>> or <<what evaluate made of replyBody>>
  decideIn,   \* the arguments of a call of decide
  decideOut,  \* <<>> or <<the RoutingDecision returned>>
  request,    \* the chat-completion request the server is handling
  hpc,        \* where its handling stands: "idle", "evaluate", "forward",
              \* "fallback", "json", "streamFetch", "reading", "done"
  decision,   \* <<>> or <<the RoutingDecision of the request>>
  calls,      \* the backend calls made for the request, in order
  response,   \* the backend response handed to the server
  client,     \* what the HTTP caller has been sent
  wire,       \* the body of the streaming backend response
  pos,        \* how much of wire has been read
  buffer,     \* handleStreamRequest's buffer
  reader,     \* the reader of the backend body: "none", "locked" (by
              \* getReader), "released" (cancelled or its lock released)
  requestId,  \* how many requests have been given an id
  started,    \* startTime of the handler of the request
  evalResult, \* <<>> or <<what evaluate returned to the handler>>
  enabled,    \* HelixLogger.enabled
  storage,    \* whether appendFileSync on the log file works: "ok", "failing"
  logFile,    \* the entries of routing.log
  statsTracker, \* the StatsTracker of the logger module, with its heap
  snapshot,   \* <<>> or <<the Stats object a caller of getStats holds, and
              \* what the caller read from it when it was returned>>
  recorded,   \* the bag of entries recorded since the last reset
  appended,   \* how many entries were appended to routing.log since then
  fresh       \* a StatsTracker constructed at the last reset and given the
              \* entries recorded since

evalVars == <<now, cache, pc, req, startTime, ret, aux>>

pureVars == <<routing, thresholds, replyBody, replyOut, decideIn, decideOut>>

proxyVars == <<request, hpc, decision, calls, response, client, wire, pos, buffer>>

handlerVars == <<reader, requestId, started, evalResult>>

logVars == <<enabled, storage, logFile, statsTracker, snapshot, recorded,
            appended, fresh>>

vars == <<now, cache, pc, req, startTime, ret, aux,
          routing, thresholds, replyBody, replyOut, decideIn, decideOut,
          request, hpc, decision, calls, response, client, wire, pos, buffer,
          reader, requestId, started, evalResult,
          enabled, storage, logFile, statsTracker, snapshot, recorded,
          appended, fresh>>

Result(evaluation, latencyMs, cached, promptHash) ==
  [evaluation |-> evaluation, latencyMs |-> latencyMs, cached |-> cached,
   promptHash |-> promptHash]

NoResult == Result(getDefaultEvaluation, 0, FALSE, <<>>)

NoBody == Body("nocontent", "none", "text", NoObject)

\* The auxiliary call: outcome is "none" (not issued), "pending", or how the
\* fetch settled ("reject", "status", "ok"); body is the response body that
\* comes with an "ok" response, until response.json() has consumed it.
AuxCall(outcome, body) == [outcome |-> outcome, body |-> body]

InitEvaluator ==
  /\ now = 0
  /\ cache = <<>>
  /\ pc = [p \in Procs |-> "idle"]
  /\ req = [p \in Procs |-> <<>>]
  /\ startTime = [p \in Procs |-> 0]
  /\ ret = [p \in Procs |-> NoResult]
  /\ aux = [p \in Procs |-> AuxCall("none", NoBody)]

InitPure ==
  /\ routing = NoThresholds
  /\ thresholds = RoutingEngineThresholds(routing)
  /\ replyBody = NoBody
  /\ replyOut = <<>>
  /\ decideIn = [evaluation |-> getDefaultEvaluation, cached |-> FALSE]
  /\ decideOut = <<>>

NoRequest == ChatCompletionRequest("helix-router/auto", <<>>, FALSE)

InitProxy ==
  /\ request = NoRequest
  /\ hpc = "idle"
  /\ decision = <<>>
  /\ calls = <<>>
  /\ response = NoResponse
  /\ client = NoClient
  /\ wire = <<>>
  /\ pos = 0
  /\ buffer = <<>>

\* The logger module as loaded, lines 41-44 and 91, and a logger constructed
\* with logging on over working storage.
InitLogger ==
  /\ enabled = TRUE
  /\ storage = "ok"
  /\ logFile = <<>>
  /\ statsTracker = NewStatsTracker
  /\ snapshot = <<>>
  /\ recorded = EmptyBag
  /\ appended = 0
  /\ fresh = NewStatsTracker

InitHandler ==
  /\ reader = "none"
  /\ requestId = 0
  /\ started = 0
  /\ evalResult = <<>>

Init == InitEvaluator /\ InitPure /\ InitProxy /\ InitHandler /\ InitLogger

(* ------------------------------ actions ------------------------------- *)

\* The clock advances.
Tick ==
  /\ now < MaxTime
  /\ now' = now + 1
  /\ UNCHANGED <<cache, pc, req, startTime, ret, aux>>
  /\ UNCHANGED pureVars
  /\ UNCHANGED handlerVars
  /\ UNCHANGED logVars
  /\ UNCHANGED proxyVars

\* evaluate with the cache lookup ignored: the fetch is issued on a hit too.
EvaluateCall_FetchesOnHit(p, messages) ==
  /\ pc[p] \in {"idle", "evaluated"}
  /\ LET promptHash == hashPrompt(messages)
         cached     == getCached(cache, promptHash, now)
     IN  /\ cache' = cached.cache
         /\ req' = [req EXCEPT ![p] = messages]
         /\ startTime' = [startTime EXCEPT ![p] = now]
         /\ pc' = [pc EXCEPT ![p] = "awaitFetch"]
         /\ ret' = [ret EXCEPT ![p] = NoResult]
         /\ aux' = [aux EXCEPT ![p] = AuxCall("pending", NoBody)]
  /\ UNCHANGED now
  /\ UNCHANGED pureVars
  /\ UNCHANGED handlerVars
  /\ UNCHANGED logVars
  /\ UNCHANGED proxyVars

\* evaluate(messages), lines 280-338: hash, cache lookup, and on a miss the
\* fetch is issued and the call suspends.
EvaluateCall(p, messages) ==
  /\ pc[p] \in {"idle", "evaluated"}
  /\ LET promptHash == hashPrompt(messages)
         cached     == getCached(cache, promptHash, now)
     IN  /\ cache' = cached.cache
         /\ req' = [req EXCEPT ![p] = messages]
         /\ startTime' = [startTime EXCEPT ![p] = now]
         /\ IF cached.hit
              THEN /\ pc' = [pc EXCEPT ![p] = "evaluated"]
                   /\ ret' = [ret EXCEPT ![p] =
                                Result(cached.evaluation, 0, TRUE, promptHash)]
                   /\ aux' = [aux EXCEPT ![p] = AuxCall("none", NoBody)]
              ELSE /\ pc' = [pc EXCEPT ![p] = "awaitFetch"]
                   /\ ret' = [ret EXCEPT ![p] = NoResult]
                   /\ aux' = [aux EXCEPT ![p] = AuxCall("pending", NoBody)]
  /\ UNCHANGED now
  /\ UNCHANGED pureVars
  /\ UNCHANGED handlerVars
  /\ UNCHANGED logVars
  /\ UNCHANGED proxyVars

\* The fetch settles, and on a failure the default is stored in the cache.
FetchSettles_StoresDefault(p, outcome, body) ==
  /\ pc[p] = "awaitFetch"
  /\ aux' = [aux EXCEPT ![p] =
               AuxCall(outcome, IF outcome = "ok" THEN body ELSE NoBody)]
  /\ LET latencyMs  == now - startTime[p]
         promptHash == hashPrompt(req[p])
     IN  IF outcome = "ok"
           THEN /\ pc' = [pc EXCEPT ![p] = "awaitBody"]
                /\ ret' = [ret EXCEPT ![p] = [NoResult EXCEPT !.latencyMs = latencyMs]]
                /\ cache' = cache
           ELSE /\ pc' = [pc EXCEPT ![p] = "evaluated"]
                /\ ret' = [ret EXCEPT ![p] =
                             Result(getDefaultEvaluation, latencyMs, FALSE, promptHash)]
                /\ cache' = setCache(cache, promptHash, getDefaultEvaluation, now)
  /\ UNCHANGED <<now, req, startTime>>
  /\ UNCHANGED pureVars
  /\ UNCHANGED handlerVars
  /\ UNCHANGED logVars
  /\ UNCHANGED proxyVars

\* The fetch settles, lines 338-344 and the catch block: latencyMs is taken;
\* a rejection or a non-2xx status returns the default, else the call
\* suspends again on response.json(), whose body the response carries.
FetchSettles(p, outcome, body) ==
  /\ pc[p] = "awaitFetch"
  /\ aux' = [aux EXCEPT ![p] =
               AuxCall(outcome, IF outcome = "ok" THEN body ELSE NoBody)]
  /\ LET latencyMs  == now - startTime[p]
         promptHash == hashPrompt(req[p])
     IN  IF outcome = "ok"
           THEN /\ pc' = [pc EXCEPT ![p] = "awaitBody"]
                /\ ret' = [ret EXCEPT ![p] = [NoResult EXCEPT !.latencyMs = latencyMs]]
           ELSE /\ pc' = [pc EXCEPT ![p] = "evaluated"]
                /\ ret' = [ret EXCEPT ![p] =
                             Result(getDefaultEvaluation, latencyMs, FALSE, promptHash)]
  /\ UNCHANGED <<now, cache, req, startTime>>
  /\ UNCHANGED pureVars
  /\ UNCHANGED handlerVars
  /\ UNCHANGED logVars
  /\ UNCHANGED proxyVars

\* response.json() settles, lines 346-401: parse, validate, recalculate,
\* setCache and return; any failure returns the default.
BodySettles(p) ==
  /\ pc[p] = "awaitBody"
  /\ LET promptHash == hashPrompt(req[p])
         out        == EvaluateBody(aux[p].body)
         latencyMs  == IF out.usedCatch THEN now - startTime[p] ELSE ret[p].latencyMs
     IN  /\ cache' = IF out.store
                       THEN setCache(cache, promptHash, out.evaluation, now)
                       ELSE cache
         /\ ret' = [ret EXCEPT ![p] =
                      Result(out.evaluation, latencyMs, FALSE, promptHash)]
  /\ pc' = [pc EXCEPT ![p] = "evaluated"]
  /\ aux' = [aux EXCEPT ![p] = AuxCall("ok", NoBody)]
  /\ UNCHANGED <<now, req, startTime>>
  /\ UNCHANGED pureVars
  /\ UNCHANGED handlerVars
  /\ UNCHANGED logVars
  /\ UNCHANGED proxyVars

\* The caller drops the result it holds.
RequestDone(p) ==
  /\ pc[p] = "evaluated"
  /\ pc' = [pc EXCEPT ![p] = "idle"]
  /\ req' = [req EXCEPT ![p] = <<>>]
  /\ startTime' = [startTime EXCEPT ![p] = 0]
  /\ ret' = [ret EXCEPT ![p] = NoResult]
  /\ aux' = [aux EXCEPT ![p] = AuxCall("none", NoBody)]
  /\ UNCHANGED <<now, cache>>
  /\ UNCHANGED pureVars
  /\ UNCHANGED handlerVars
  /\ UNCHANGED logVars
  /\ UNCHANGED proxyVars

\* Concurrent callers: the inputs are kept to three conversations with
\* distinct hashes, to a failing and a successful fetch, and to one valid
\* response body.
ConcurrentConversations ==
  { << Msg("user", <<97>>) >>, << Msg("user", <<98>>) >>, << Msg("user", <<99>>) >> }

ConcurrentOutcomes == {"status", "ok"}

ConcurrentBodies ==
  { Body("content", "none", "object",
         RawObject({}, "low", "classification", "low", "low", "small",
                   Num(25), Num(900))) }

Next ==
  \/ Tick
  \/ \E p \in Procs, messages \in ConcurrentConversations : EvaluateCall(p, messages)
  \/ \E p \in Procs, outcome \in ConcurrentOutcomes, body \in ConcurrentBodies :
        FetchSettles(p, outcome, body)
  \/ \E p \in Procs : BodySettles(p)
  \/ \E p \in Procs : RequestDone(p)

Spec == Init /\ [][Next]_vars

\* One caller: calls to evaluate follow one another.
NextSeq ==
  \/ Tick
  \/ \E messages \in Conversations : EvaluateCall(1, messages)
  \/ \E outcome \in FetchOutcomes, body \in Bodies : FetchSettles(1, outcome, body)
  \/ BodySettles(1)
  \/ RequestDone(1)

SpecSeq == Init /\ [][NextSeq]_vars

(* ------------- evaluate's handling of a response body, alone ---------- *)

InitReply ==
  /\ InitEvaluator
  /\ InitHandler
  /\ InitLogger
  /\ routing = NoThresholds
  /\ thresholds = RoutingEngineThresholds(routing)
  /\ replyBody \in AllBodies
  /\ replyOut = <<>>
  /\ decideIn = [evaluation |-> getDefaultEvaluation, cached |-> FALSE]
  /\ decideOut = <<>>
  /\ InitProxy

ApplyEvaluateBody ==
  /\ replyOut = <<>>
  /\ replyOut' = << EvaluateBody(replyBody) >>
  /\ UNCHANGED <<routing, thresholds, replyBody, decideIn, decideOut>>
  /\ UNCHANGED evalVars
  /\ UNCHANGED proxyVars
  /\ UNCHANGED handlerVars
  /\ UNCHANGED logVars

NextReply == ApplyEvaluateBody

SpecReply == InitReply /\ [][NextReply]_vars

(* ------------------------------ decide, alone ------------------------- *)

InitDecide ==
  /\ InitEvaluator
  /\ InitHandler
  /\ InitLogger
  /\ routing \in ThresholdConfigs
  /\ thresholds = RoutingEngineThresholds(routing)
  /\ replyBody = NoBody
  /\ replyOut = <<>>
  /\ decideIn \in [evaluation : DecideEvaluations, cached : BOOLEAN]
  /\ decideOut = <<>>
  /\ InitProxy

ApplyDecide ==
  /\ decideOut = <<>>
  /\ decideOut' = << decide(thresholds, decideIn.evaluation, decideIn.cached) >>
  /\ UNCHANGED <<routing, thresholds, replyBody, replyOut, decideIn>>
  /\ UNCHANGED evalVars
  /\ UNCHANGED proxyVars
  /\ UNCHANGED handlerVars
  /\ UNCHANGED logVars

NextDecide == ApplyDecide

SpecDecide == InitDecide /\ [][NextDecide]_vars

(* --------------------- a reply evaluated, then routed ----------------- *)

\* Replies of the auxiliary model that fail to evaluate, and every reply
\* that validates: each categorical field over its whole table.
RouteBodies ==
  { Body("badbody", "none", "text", NoObject),
    Body("content", "none", "text", NoObject),
    Body("content", "none", "nonobject", NoObject) }
  \cup { Body("content", "none", "object",
               RawObject({}, rd, tt, cl, ra, ts, Num(50), conf)) :
           rd \in ReasoningDepths, tt \in TaskTypes, cl \in ConstraintLevels,
           ra \in AccuracyRequirements, ts \in {"small", "very_large"},
           conf \in {Num(500), Num(600), Num(900)} }

InitRoute ==
  /\ InitEvaluator
  /\ InitHandler
  /\ InitLogger
  /\ routing \in ThresholdConfigs
  /\ thresholds = RoutingEngineThresholds(routing)
  /\ replyBody \in RouteBodies
  /\ replyOut = <<>>
  /\ decideIn = [evaluation |-> getDefaultEvaluation, cached |-> FALSE]
  /\ decideOut = <<>>
  /\ InitProxy

\* handleRequest, line 333: decide is given the evaluation that evaluate
\* returned and its cached flag (false for a reply just evaluated).
DecideEvaluated ==
  /\ replyOut # <<>>
  /\ decideOut = <<>>
  /\ decideIn' = [evaluation |-> replyOut[1].evaluation, cached |-> FALSE]
  /\ decideOut' = << decide(thresholds, replyOut[1].evaluation, FALSE) >>
  /\ UNCHANGED <<routing, thresholds, replyBody, replyOut>>
  /\ UNCHANGED evalVars
  /\ UNCHANGED proxyVars
  /\ UNCHANGED handlerVars
  /\ UNCHANGED logVars

NextRoute ==
  \/ ApplyEvaluateBody
  \/ DecideEvaluated

SpecRoute == InitRoute /\ [][NextRoute]_vars

(* ---------------- the standalone launcher's routing decision ---------- *)

\* makeRoutingDecision(evaluation, cached) of helix-router.js, with th the
\* DEFAULT_CONFIG.routing it reads: rules 1 to 5, then the banding.
makeRoutingDecision(th, evaluation, cached) ==
  LET complexity_score == evaluation.complexity_score
      task_type        == evaluation.task_type
      confidence       == evaluation.confidence
      midPreferred     == {"visualization", "writing", "summarization"}
  IN  IF evaluation.estimated_token_size = "very_large"
        THEN buildDecision("pro", evaluation,
               Reasoning("Very large token size forces PRO", "", 0, 0, 0), cached)
      ELSE IF confidence < 600
        THEN buildDecision("mid", evaluation,
               Reasoning("Low confidence (c) defaults to MID", "", 0,
                         toFixed2(confidence), 0), cached)
      ELSE IF complexity_score > 90 /\ confidence < 700
        THEN buildDecision("mid", evaluation,
               Reasoning("High score but low confidence -> MID", "", 0, 0, 0),
               cached)
      ELSE IF task_type \in midPreferred /\ complexity_score < 70
        THEN buildDecision("mid", evaluation,
               Reasoning("t prefers MID", task_type, 0, 0, 0), cached)
      ELSE IF task_type = "coding" /\ complexity_score < 70
        THEN buildDecision("mid", evaluation,
               Reasoning("Coding stays in MID", "", 0, 0, 0), cached)
      ELSE decideByScore(th, evaluation, cached)

\* The launcher's handler, line 401: the decision for the evaluation.
ApplyMakeRoutingDecision ==
  /\ decideOut # <<>>
  /\ decision = <<>>
  /\ decision' = << makeRoutingDecision(thresholds, decideIn.evaluation,
                                        decideIn.cached) >>
  /\ UNCHANGED <<request, hpc, calls, response, client, wire, pos, buffer>>
  /\ UNCHANGED evalVars
  /\ UNCHANGED pureVars
  /\ UNCHANGED handlerVars
  /\ UNCHANGED logVars

NextLauncher ==
  \/ ApplyDecide
  \/ ApplyMakeRoutingDecision

SpecLauncher == InitDecide /\ [][NextLauncher]_vars

(* ------------------- HelixServer and HelixProxy: requests ------------- *)

\* How a backend fetch settles: it rejects, or resolves with a response.
Settlement(rejected, res) == [rejected |-> rejected, response |-> res]

BackendSettlements ==
  { Settlement(TRUE, Rejected),
    Settlement(FALSE, BackendResponse(TRUE, "completion")),
    Settlement(FALSE, BackendResponse(TRUE, "notjson")),
    Settlement(FALSE, BackendResponse(FALSE, "error")),
    Settlement(FALSE, BackendResponse(FALSE, "notjson")) }

\* How the streaming fetch settles: it rejects, resolves with a non-2xx
\* status, resolves without a body, or resolves with a body to read.
StreamOutcomes == {"reject", "status", "nobody", "ok"}

ErrorChunk == StreamChunk("error", <<>>, "")

DoneEvent == StreamChunk("done", <<>>, "")

\* handleChatCompletion's catch, lines 186-195 of the server: status 500
\* with error.type = internal_error.
InternalError == ClientState(500, "internal_error", <<>>, TRUE)

\* handleStreamCompletion's catch and end, lines 235-245 of the server: one
\* error event is written after what was sent, and the response is ended.
StreamError(c) == [c EXCEPT !.events = Append(@, ErrorChunk), !.ended = TRUE]

\* The server takes a chat-completion request, lines 163-185: a streaming
\* request has its head written at once (lines 225-229); then the proxy
\* starts handling it (generateId and startTime, lines 327-328 and 442-443)
\* and calls evaluate.
ReceiveRequest(r) ==
  /\ hpc \in {"idle", "done"}
  /\ requestId < MaxRequests
  /\ pc[1] = "idle"
  /\ request' = r
  /\ hpc' = "evaluate"
  /\ decision' = <<>>
  /\ calls' = <<>>
  /\ response' = NoResponse
  /\ client' = IF r.stream THEN ClientState(200, "none", <<>>, FALSE) ELSE NoClient
  /\ wire' = <<>>
  /\ pos' = 0
  /\ buffer' = <<>>
  /\ reader' = "none"
  /\ requestId' = requestId + 1
  /\ started' = now
  /\ evalResult' = <<>>
  /\ UNCHANGED evalVars
  /\ UNCHANGED pureVars
  /\ UNCHANGED logVars

\* evaluate throws (hashPrompt on a request without a messages array).
\* handleRequest's catch, lines 386-393, forwards to mid; the stream path
\* rethrows, lines 541-544, and the server writes the error event.
EvaluateThrows ==
  /\ hpc = "evaluate"
  /\ pc[1] = "idle"
  /\ request.messages = <<>>
  /\ IF request.stream
       THEN /\ client' = StreamError(client)
            /\ hpc' = "done"
            /\ UNCHANGED calls
       ELSE /\ calls' = Append(calls, forwardRequest(request, getProvider("mid")))
            /\ hpc' = "fallback"
            /\ UNCHANGED client
  /\ UNCHANGED <<request, decision, response, wire, pos, buffer>>
  /\ UNCHANGED evalVars
  /\ UNCHANGED pureVars
  /\ UNCHANGED handlerVars
  /\ UNCHANGED logVars

\* The logEntry of lines 363-378 and 524-539.
LogEntry ==
  LET d == decision[1]
  IN  RoutingLogEntry(requestId, d.score, d.tier, getProvider(d.tier).model,
                      d.taskType, now - started, evalResult[1].latencyMs,
                      d.cached)

\* What a call of logRouting that left l behind did to the logger module.
Logging(l, entry) ==
  /\ logFile' = l.file
  /\ appended' = appended + Len(l.file) - Len(logFile)
  /\ statsTracker' = l.t
  /\ IF l.t # statsTracker
       THEN /\ recorded' = recorded (+) SetToBag({entry})
            /\ fresh' = record(fresh, entry)
       ELSE UNCHANGED <<recorded, fresh>>
  /\ UNCHANGED <<enabled, storage, snapshot>>

\* A handler that records its log entry when it has decided, before the
\* backend is called.
RouteAndForward_LogsAtDecision ==
  /\ hpc = "evaluate"
  /\ pc[1] = "evaluated"
  /\ LET d        == decide(thresholds, ret[1].evaluation, ret[1].cached)
         provider == getProvider(d.tier)
         entry    == RoutingLogEntry(requestId, d.score, d.tier, provider.model,
                                     d.taskType, now - started, ret[1].latencyMs,
                                     d.cached)
     IN  /\ decision' = << d >>
         /\ IF request.stream
              THEN /\ calls' = Append(calls, streamRequest(request, provider))
                   /\ hpc' = "streamFetch"
              ELSE /\ calls' = Append(calls, forwardRequest(request, provider))
                   /\ hpc' = "forward"
         /\ Logging(logRouting(logFile, statsTracker, entry, enabled, storage = "ok"),
                    entry)
  /\ pc' = [pc EXCEPT ![1] = "idle"]
  /\ req' = [req EXCEPT ![1] = <<>>]
  /\ startTime' = [startTime EXCEPT ![1] = 0]
  /\ ret' = [ret EXCEPT ![1] = NoResult]
  /\ aux' = [aux EXCEPT ![1] = AuxCall("none", NoBody)]
  /\ evalResult' = << ret[1] >>
  /\ UNCHANGED <<now, cache>>
  /\ UNCHANGED <<request, response, client, wire, pos, buffer>>
  /\ UNCHANGED <<reader, requestId, started>>
  /\ UNCHANGED pureVars

\* evaluate has returned: decide, getProvider, and the backend fetch is
\* issued (handleRequest lines 329-347, handleStreamRequest lines 445-472).
RouteAndForward ==
  /\ hpc = "evaluate"
  /\ pc[1] = "evaluated"
  /\ LET d        == decide(thresholds, ret[1].evaluation, ret[1].cached)
         provider == getProvider(d.tier)
     IN  /\ decision' = << d >>
         /\ IF request.stream
              THEN /\ calls' = Append(calls, streamRequest(request, provider))
                   /\ hpc' = "streamFetch"
              ELSE /\ calls' = Append(calls, forwardRequest(request, provider))
                   /\ hpc' = "forward"
  /\ pc' = [pc EXCEPT ![1] = "idle"]
  /\ req' = [req EXCEPT ![1] = <<>>]
  /\ startTime' = [startTime EXCEPT ![1] = 0]
  /\ ret' = [ret EXCEPT ![1] = NoResult]
  /\ aux' = [aux EXCEPT ![1] = AuxCall("none", NoBody)]
  /\ evalResult' = << ret[1] >>
  /\ UNCHANGED <<now, cache>>
  /\ UNCHANGED <<request, response, client, wire, pos, buffer>>
  /\ UNCHANGED <<reader, requestId, started>>
  /\ UNCHANGED pureVars
  /\ UNCHANGED logVars

\* A handler without the catch: a rejected fetch goes straight to the
\* server's internal error.
ForwardSettles_NoFallback(s) ==
  /\ hpc = "forward"
  /\ response' = s.response
  /\ IF s.rejected
       THEN /\ client' = InternalError
            /\ hpc' = "done"
            /\ UNCHANGED logVars
       ELSE /\ hpc' = "json"
            /\ UNCHANGED client
            /\ Logging(logRouting(logFile, statsTracker, LogEntry, enabled,
                                  storage = "ok"), LogEntry)
  /\ UNCHANGED <<request, decision, calls, wire, pos, buffer>>
  /\ UNCHANGED evalVars
  /\ UNCHANGED pureVars
  /\ UNCHANGED handlerVars

\* The fetch of the first forwardRequest settles, lines 347-393: a response
\* of any status has its clone read for the token counts (a failure of that
\* is dropped, lines 354-361), is logged and returned to the server, which
\* awaits its JSON; a rejection, or anything thrown on the way to the
\* return, goes to the catch, which forwards to mid.
ForwardSettles(s) ==
  /\ hpc = "forward"
  /\ response' = s.response
  /\ IF s.rejected
       THEN /\ calls' = Append(calls, forwardRequest(request, getProvider("mid")))
            /\ hpc' = "fallback"
            /\ UNCHANGED logVars
       ELSE LET l == logRouting(logFile, statsTracker, LogEntry, enabled,
                                storage = "ok")
            IN  /\ Logging(l, LogEntry)
                /\ IF l.threw
                     THEN /\ calls' = Append(calls,
                                  forwardRequest(request, getProvider("mid")))
                          /\ hpc' = "fallback"
                     ELSE /\ hpc' = "json"
                          /\ UNCHANGED calls
  /\ UNCHANGED <<request, decision, client, wire, pos, buffer>>
  /\ UNCHANGED evalVars
  /\ UNCHANGED pureVars
  /\ UNCHANGED handlerVars

\* The fetch of the fallback forwardRequest settles, line 392: its response
\* is returned, its rejection rejects handleRequest and the server answers
\* with the internal error.
FallbackSettles(s) ==
  /\ hpc = "fallback"
  /\ response' = s.response
  /\ IF s.rejected
       THEN /\ client' = InternalError
            /\ hpc' = "done"
       ELSE /\ hpc' = "json"
            /\ UNCHANGED client
  /\ UNCHANGED <<request, decision, calls, wire, pos, buffer>>
  /\ UNCHANGED evalVars
  /\ UNCHANGED pureVars
  /\ UNCHANGED handlerVars
  /\ UNCHANGED logVars

\* handleNonStreamCompletion, lines 201-215 of the server: response.json()
\* settles; the data is written with status 200, a rejection goes to the
\* catch of handleChatCompletion.
JsonSettles ==
  /\ hpc = "json"
  /\ client' = IF response.body = "notjson"
                 THEN InternalError
                 ELSE ClientState(200, response.body, <<>>, TRUE)
  /\ hpc' = "done"
  /\ UNCHANGED <<request, decision, calls, response, wire, pos, buffer>>
  /\ UNCHANGED evalVars
  /\ UNCHANGED pureVars
  /\ UNCHANGED handlerVars
  /\ UNCHANGED logVars

\* The streaming fetch settles, lines 465-482: a rejection, a non-2xx status
\* or a missing body throws, and the server writes the error event; else
\* the body w is there to read and getReader, line 478, locks it.
StreamFetchSettles(outcome, w) ==
  /\ hpc = "streamFetch"
  /\ IF outcome = "ok"
       THEN /\ wire' = w
            /\ hpc' = "reading"
            /\ UNCHANGED client
       ELSE /\ client' = StreamError(client)
            /\ hpc' = "done"
            /\ UNCHANGED wire
  /\ response' = CASE outcome = "reject" -> Rejected
                    [] outcome = "status" -> BackendResponse(FALSE, "error")
                    [] outcome = "nobody" -> BackendResponse(TRUE, "nobody")
                    [] outcome = "ok"     -> BackendResponse(TRUE, "stream")
  /\ pos' = 0
  /\ buffer' = <<>>
  /\ reader' = IF outcome = "ok" THEN "locked" ELSE reader
  /\ UNCHANGED <<request, decision, calls>>
  /\ UNCHANGED <<requestId, started, evalResult>>
  /\ UNCHANGED evalVars
  /\ UNCHANGED pureVars
  /\ UNCHANGED logVars

\* reader.read() gives the next n characters, lines 489-519; the server
\* writes each chunk yielded, line 233 of the server.
ReadChunk(n) ==
  /\ hpc = "reading"
  /\ n >= 1
  /\ pos + n <= Len(wire)
  /\ LET tier == decision[1].tier
         r == StreamRead(buffer, SubSeq(wire, pos + 1, pos + n),
                         tier, getProvider(tier).model)
     IN  /\ buffer' = r.buffer
         /\ client' = [client EXCEPT !.events = @ \o r.yields]
  /\ pos' = pos + n
  /\ UNCHANGED <<request, hpc, decision, calls, response, wire>>
  /\ UNCHANGED evalVars
  /\ UNCHANGED pureVars
  /\ UNCHANGED handlerVars
  /\ UNCHANGED logVars

\* A server that ends a completed stream without the final event.
ReadDone_NoMarker ==
  /\ hpc = "reading"
  /\ pos = Len(wire)
  /\ Logging(logRouting(logFile, statsTracker, LogEntry, enabled, storage = "ok"),
             LogEntry)
  /\ client' = [client EXCEPT !.ended = TRUE]
  /\ hpc' = "done"
  /\ UNCHANGED <<request, decision, calls, response, wire, pos, buffer>>
  /\ UNCHANGED evalVars
  /\ UNCHANGED pureVars
  /\ UNCHANGED handlerVars

\* reader.read() reports done, line 490: the generator logs, lines 522-539,
\* and returns, the server writes the final [DONE] event and ends the
\* response; anything thrown by the generator has the server write the
\* error event instead. The reader is left as it is.
ReadDone ==
  /\ hpc = "reading"
  /\ pos = Len(wire)
  /\ LET l == logRouting(logFile, statsTracker, LogEntry, enabled, storage = "ok")
     IN  /\ Logging(l, LogEntry)
         /\ client' = IF l.threw
                        THEN StreamError(client)
                        ELSE [client EXCEPT !.events = Append(@, DoneEvent),
                                            !.ended = TRUE]
  /\ hpc' = "done"
  /\ UNCHANGED <<request, decision, calls, response, wire, pos, buffer>>
  /\ UNCHANGED evalVars
  /\ UNCHANGED pureVars
  /\ UNCHANGED handlerVars

\* A failure that ends the response without telling the caller.
ReadFails_Silent ==
  /\ hpc = "reading"
  /\ response' = BackendResponse(TRUE, "readerror")
  /\ client' = [client EXCEPT !.ended = TRUE]
  /\ hpc' = "done"
  /\ UNCHANGED <<request, decision, calls, wire, pos, buffer>>
  /\ UNCHANGED evalVars
  /\ UNCHANGED pureVars
  /\ UNCHANGED handlerVars
  /\ UNCHANGED logVars

\* reader.read() rejects: the generator rethrows, lines 541-544, and the
\* server writes the error event and ends the response.
ReadFails ==
  /\ hpc = "reading"
  /\ response' = BackendResponse(TRUE, "readerror")
  /\ client' = StreamError(client)
  /\ hpc' = "done"
  /\ UNCHANGED <<request, decision, calls, wire, pos, buffer>>
  /\ UNCHANGED evalVars
  /\ UNCHANGED pureVars
  /\ UNCHANGED handlerVars
  /\ UNCHANGED logVars

\* The server's write of a chunk throws (the caller is gone), line 233 of
\* the server: its loop is left, which returns the generator at the yield
\* it is suspended at, and the catch and res.end() of lines 235-245 run.
\* Nothing of the generator after that yield runs: no log entry, and the
\* reader is left as it is.
ConsumerStops ==
  /\ hpc = "reading"
  /\ client.events # <<>>
  /\ response' = BackendResponse(TRUE, "abandoned")
  /\ client' = StreamError(client)
  /\ hpc' = "done"
  /\ UNCHANGED <<request, decision, calls, wire, pos, buffer>>
  /\ UNCHANGED evalVars
  /\ UNCHANGED pureVars
  /\ UNCHANGED handlerVars
  /\ UNCHANGED logVars

\* Requests: every model name that names a tier, the automatic one, with and
\* without a messages array, streaming or not.
RequestModels ==
  {"helix-router/auto", "pro", "mid", "low",
   "helix-router/pro", "helix-router/mid", "helix-router/low"}

Requests ==
  { ChatCompletionRequest(model, messages, stream) :
      model \in RequestModels,
      messages \in { <<>>, << << Msg("user", <<97>>) >> >> },
      stream \in BOOLEAN }

\* Replies of the auxiliary model that route to low and to pro.
ProxyBodies ==
  { Body("content", "none", "object",
         RawObject({}, "low", "classification", "low", "low", "small",
                   Num(25), Num(900))),
    Body("content", "none", "object",
         RawObject({}, "high", "architecture_design", "high", "high", "large",
                   Num(90), Num(900))) }

LineFeed == << "\n" >>

DataLine(payload) == DataPrefix \o <<" ">> \o payload \o LineFeed

\* Backend stream bodies of the request machine: a chunk, a comment line
\* and the end marker; two chunks around a truncated one; an empty body.
ProxyWires ==
  { DataLine(<<"{", "}">>) \o <<":", "\n">> \o DataLine(DoneText),
    DataLine(<<"{", "}">>) \o DataLine(<<"{">>) \o DataLine(<<"{", " ", "}">>),
    <<>> }

NextProxy ==
  \/ \E r \in Requests : ReceiveRequest(r)
  \/ /\ hpc = "evaluate"
     /\ pc[1] = "idle"
     /\ request.messages # <<>>
     /\ EvaluateCall(1, request.messages[1])
  \/ /\ hpc = "evaluate"
     /\ \E outcome \in ConcurrentOutcomes, body \in ProxyBodies :
          FetchSettles(1, outcome, body)
  \/ /\ hpc = "evaluate"
     /\ BodySettles(1)
  \/ EvaluateThrows
  \/ RouteAndForward
  \/ \E s \in BackendSettlements : ForwardSettles(s)
  \/ \E s \in BackendSettlements : FallbackSettles(s)
  \/ JsonSettles
  \/ \E outcome \in StreamOutcomes, w \in ProxyWires : StreamFetchSettles(outcome, w)
  \/ \E n \in 1..3 : ReadChunk(n)
  \/ ReadDone
  \/ ReadFails
  \/ ConsumerStops

\* The server as started: the logger is on or off (the constructor of
\* HelixProxy, line 317, passes config.cache?.enabled ?? true), and the log
\* file can be appended to or cannot.
InitServer ==
  /\ InitEvaluator
  /\ InitPure
  /\ InitProxy
  /\ InitHandler
  /\ enabled \in BOOLEAN
  /\ storage \in {"ok", "failing"}
  /\ logFile = <<>>
  /\ statsTracker = NewStatsTracker
  /\ snapshot = <<>>
  /\ recorded = EmptyBag
  /\ appended = 0
  /\ fresh = NewStatsTracker

SpecProxy == InitServer /\ [][NextProxy]_vars

(* --------------------- the stream loop, many bodies ------------------- *)

\* Lines a backend may send (without their newline): a chunk, another
\* chunk with white space around it and a carriage return, a truncated
\* chunk, the end marker, a blank line ending in a carriage return, and
\* the JSON value 0.
StreamLineTexts ==
  { DataPrefix \o <<" ", "{", "}">>,
    <<" ">> \o DataPrefix \o <<"{", " ", "}", " ", "\r">>,
    DataPrefix \o <<" ", "{">>,
    DataPrefix \o <<" ">> \o DoneText,
    <<"\r">>,
    DataPrefix \o <<" ", "0">> }

\* A started line that may follow the last newline of a body.
WireTail == DataPrefix \o <<" ", "{", "}">>

RECURSIVE JoinLines(_)
JoinLines(lines) ==
  IF lines = <<>> THEN <<>>
  ELSE Head(lines) \o LineFeed \o JoinLines(Tail(lines))

\* Bodies of at most MaxLines lines, the last of which may lack its newline.
Wires ==
  { JoinLines(lines) :
      lines \in UNION { [1..k -> StreamLineTexts] : k \in 0..MaxLines } }
  \cup { JoinLines(lines) \o WireTail :
           lines \in UNION { [1..k -> StreamLineTexts] : k \in 0..(MaxLines - 1) } }

\* A streaming request whose evaluation fell back to the default, routed to
\* mid, and whose backend answered with a body to read.
InitStream ==
  /\ InitEvaluator
  /\ InitPure
  /\ request = ChatCompletionRequest("helix-router/auto",
                                     << << Msg("user", <<97>>) >> >>, TRUE)
  /\ hpc = "reading"
  /\ decision = << decide(thresholds, getDefaultEvaluation, FALSE) >>
  /\ calls = << streamRequest(request, getProvider("mid")) >>
  /\ response = BackendResponse(TRUE, "stream")
  /\ client = ClientState(200, "none", <<>>, FALSE)
  /\ wire \in Wires
  /\ pos = 0
  /\ buffer = <<>>
  /\ reader = "locked"
  /\ requestId = 1
  /\ started = 0
  /\ evalResult = << NoResult >>
  /\ InitLogger

NextStream ==
  \/ \E n \in 1..Len(wire) : ReadChunk(n)
  \/ ReadDone
  \/ ReadFails

SpecStream == InitStream /\ [][NextStream]_vars

(* --------------------------- StatsTracker, alone ---------------------- *)

\* What a caller of getStats holds: the object returned, and what the
\* caller read from it at the time.
Snapshot(stats, seen) == [stats |-> stats, seen |-> seen]

\* statsTracker.record(entry)
Record(entry) ==
  /\ statsTracker' = record(statsTracker, entry)
  /\ recorded' = recorded (+) SetToBag({entry})
  /\ fresh' = record(fresh, entry)
  /\ UNCHANGED <<enabled, storage, logFile, snapshot, appended>>
  /\ UNCHANGED evalVars
  /\ UNCHANGED pureVars
  /\ UNCHANGED proxyVars
  /\ UNCHANGED handlerVars

\* resetStats, lines 148-151: statsTracker.reset()
Reset ==
  /\ Len(statsTracker.heap) < 2 + 2 * MaxResets
  /\ statsTracker' = reset(statsTracker)
  /\ recorded' = EmptyBag
  /\ appended' = 0
  /\ fresh' = NewStatsTracker
  /\ UNCHANGED <<enabled, storage, logFile, snapshot>>
  /\ UNCHANGED evalVars
  /\ UNCHANGED pureVars
  /\ UNCHANGED proxyVars
  /\ UNCHANGED handlerVars

\* A caller takes getStats() and keeps what it returned.
GetStats ==
  /\ snapshot' = << Snapshot(getStats(statsTracker),
                             ReadStats(getStats(statsTracker), statsTracker.heap)) >>
  /\ UNCHANGED <<enabled, storage, logFile, statsTracker, recorded, appended, fresh>>
  /\ UNCHANGED evalVars
  /\ UNCHANGED pureVars
  /\ UNCHANGED proxyVars
  /\ UNCHANGED handlerVars

\* Entries of a low, a pro and a mid request.
StatsEntries ==
  { RoutingLogEntry(0, 25, "low", "model-low", "classification", 3, 1, FALSE),
    RoutingLogEntry(0, 90, "pro", "model-pro", "architecture_design", 4, 0, TRUE),
    RoutingLogEntry(0, 50, "mid", "model-mid", "other", 0, 0, FALSE) }

NextStats ==
  \/ /\ statsTracker.tracker.stats.totalRequests < MaxRecords
     /\ \E entry \in StatsEntries : Record(entry)
  \/ Reset
  \/ GetStats

SpecStats == Init /\ [][NextStats]_vars

(* ------------------- the logger, over changing storage ---------------- *)

\* Entries of a low and of a cached pro request.
LoggedEntries ==
  { RoutingLogEntry(0, 25, "low", "model-low", "classification", 3, 1, FALSE),
    RoutingLogEntry(0, 90, "pro", "model-pro", "architecture_design", 4, 0, TRUE) }

InitLog ==
  /\ InitEvaluator
  /\ InitPure
  /\ InitProxy
  /\ InitHandler
  /\ enabled \in BOOLEAN
  /\ storage \in {"ok", "failing"}
  /\ logFile = <<>>
  /\ statsTracker = NewStatsTracker
  /\ snapshot = <<>>
  /\ recorded = EmptyBag
  /\ appended = 0
  /\ fresh = NewStatsTracker

\* HelixLogger.logRouting(entry)
LogRouting(entry) ==
  /\ Logging(logRouting(logFile, statsTracker, entry, enabled, storage = "ok"), entry)
  /\ UNCHANGED evalVars
  /\ UNCHANGED pureVars
  /\ UNCHANGED proxyVars
  /\ UNCHANGED handlerVars

\* appendFileSync on routing.log starts failing, or works again.
StorageChanges ==
  /\ storage' = IF storage = "ok" THEN "failing" ELSE "ok"
  /\ UNCHANGED <<enabled, logFile, statsTracker, snapshot, recorded, appended, fresh>>
  /\ UNCHANGED evalVars
  /\ UNCHANGED pureVars
  /\ UNCHANGED proxyVars
  /\ UNCHANGED handlerVars

NextLog ==
  \/ /\ statsTracker.tracker.stats.totalRequests < MaxRecords
     /\ appended < MaxRecords
     /\ \E entry \in LoggedEntries : LogRouting(entry)
  \/ Reset
  \/ StorageChanges

SpecLog == InitLog /\ [][NextLog]_vars

\* Entries that differ in cached alone.
HitRateEntry(cached) ==
  RoutingLogEntry(0, 50, "mid", "model-mid", "other", 0, 0, cached)

NextHitRate ==
  /\ statsTracker.tracker.stats.totalRequests < MaxHitRateRecords
  /\ \E cached \in BOOLEAN : Record(HitRateEntry(cached))

SpecHitRate == Init /\ [][NextHitRate]_vars

(* ======================== properties: the evaluator =================== *)

\* The lookup tables as the specification states them.
ClaimedReasoningScore(level) ==
  CASE level = "low" -> 10 [] level = "medium" -> 20 [] level = "high" -> 30

ClaimedTaskScore(task) ==
  CASE task \in {"classification", "extraction"} -> 5
    [] task = "summarization" -> 10
    [] task \in {"writing", "visualization", "other"} -> 15
    [] task = "coding" -> 20
    [] task = "multi_step_planning" -> 25
    [] task \in {"architecture_design", "mathematical_reasoning"} -> 30

ClaimedLevelScore(level) ==
  CASE level = "low" -> 5 [] level = "medium" -> 10 [] level = "high" -> 20

ClaimedScore(rd, tt, cl, ra) ==
  Min(100, ClaimedReasoningScore(rd) + ClaimedTaskScore(tt)
           + ClaimedLevelScore(cl) + ClaimedLevelScore(ra))

ClaimedScoreOf(e) ==
  ClaimedScore(e.reasoning_depth, e.task_type, e.constraint_level,
               e.required_accuracy)

\* The fixed default evaluation as the specification states it.
ClaimedDefault ==
  [reasoning_depth |-> "medium", task_type |-> "other",
   constraint_level |-> "medium", required_accuracy |-> "medium",
   estimated_token_size |-> "medium", complexity_score |-> 50,
   confidence |-> 600]

\* C1 as stated: every evaluation that evaluate returns, the default
\* included, has complexity_score equal to the recomputation from its own
\* four categorical fields.
C1_Original ==
  \A p \in Procs :
    pc[p] = "evaluated" =>
      ret[p].evaluation.complexity_score = ClaimedScoreOf(ret[p].evaluation)

\* C1 amended: an evaluation returned from the cache, and every evaluation
\* the cache holds, has complexity_score equal to the recomputation from its
\* own fields; an evaluation returned with cached = false either has it too
\* or is the fixed default, whose score is 50 while its fields recompute
\* to 55.
C1_ScoreMatchesFieldsExceptDefault ==
  /\ \A p \in Procs :
       pc[p] = "evaluated" =>
         \/ ret[p].evaluation.complexity_score = ClaimedScoreOf(ret[p].evaluation)
         \/ /\ ~ret[p].cached
            /\ ret[p].evaluation = ClaimedDefault
            /\ ClaimedScoreOf(ret[p].evaluation) = 55
  /\ \A i \in 1..Len(cache) :
       cache[i].evaluation.complexity_score = ClaimedScoreOf(cache[i].evaluation)

\* C1 witness: a call answered from the cache with a recomputed score of 100
\* although the reply had reported 7.
C1_Witness ==
  /\ pc[1] = "evaluated"
  /\ ret[1].cached
  /\ ret[1].evaluation.complexity_score = 100
  /\ ret[1].evaluation.task_type = "architecture_design"

\* C2: for a reply that parses and passes validation, the returned score is
\* min(100, R + T + C + A) of the corrected categorical fields of the reply,
\* whatever score the reply reported; it lies in 0..100 and recomputing it
\* gives the same value.
ClaimedLevel(value) == IF value \in {"low", "medium", "high"} THEN value ELSE "medium"

ClaimedTask(value) == IF value \in TaskTypes THEN value ELSE "other"

C2_ScoreRecomputedFromCorrectedFields ==
  (replyOut # <<>> /\ replyOut[1].store) =>
    LET obj == replyBody.obj
        e   == replyOut[1].evaluation
    IN  /\ e.complexity_score =
             ClaimedScore(ClaimedLevel(obj.reasoning_depth), ClaimedTask(obj.task_type),
                          ClaimedLevel(obj.constraint_level),
                          ClaimedLevel(obj.required_accuracy))
        /\ e.complexity_score \in 0..100
        /\ recalculateScore(e) = e.complexity_score

\* C2 witness: a validated reply that reported 250 for fields that sum to 25.
C2_Witness ==
  /\ replyOut # <<>>
  /\ replyOut[1].store
  /\ replyBody.obj.complexity_score = Num(250)
  /\ replyBody.obj.task_type = "extraction"
  /\ replyOut[1].evaluation.complexity_score = 25

\* The failures C3 names, as seen on the auxiliary call: the body b of an
\* "ok" response has no content or content that is not parseable JSON.
ClaimedBodyFailure(b) ==
  \/ b.kind \in {"badbody", "nocontent"}
  \/ b.kind = "content" /\ (b.payload = "text" \/ b.fence \in {"other", "unclosed"})

\* C3: when the auxiliary call throws, returns a non-2xx status, returns no
\* content or unparseable content, evaluate returns (it does not throw) the
\* fixed default evaluation with cached = false.
C3_FailureReturnsDefault ==
  [][\A p \in Procs :
       ( \/ pc[p] = "awaitFetch" /\ aux'[p].outcome \in {"reject", "status"}
         \/ pc[p] = "awaitBody" /\ pc'[p] # "awaitBody"
              /\ ClaimedBodyFailure(aux[p].body) )
       => /\ pc'[p] = "evaluated"
          /\ ret'[p].evaluation = ClaimedDefault
          /\ ~ret'[p].cached
          /\ cache' = cache]_vars

\* C3 witness: evaluate has returned the default after a non-2xx status.
C3_Witness ==
  /\ pc[1] = "evaluated"
  /\ aux[1].outcome = "status"
  /\ ret[1].evaluation = ClaimedDefault
  /\ ~ret[1].cached

\* A field of a parsed reply is valid when the key is present and the value
\* is in the field's enumeration (confidence: a number in [0,1]).
ClaimedValid(obj, field, values) == field \notin obj.absent /\ obj[field] \in values

ClaimedKept(obj, field, values, dflt) ==
  IF ClaimedValid(obj, field, values) THEN obj[field] ELSE dflt

\* C4 as stated: for a parsed reply with an invalid or a missing field, only
\* that field is replaced by its neutral default, every valid field is kept,
\* and the default evaluation is not substituted for the reply.
C4_Original ==
  (replyOut # <<>> /\ replyBody.kind = "content" /\ JsonParses(replyBody)
     /\ replyBody.payload = "object") =>
    LET obj == replyBody.obj
        e   == replyOut[1].evaluation
    IN  /\ replyOut[1].store
        /\ e.reasoning_depth =
             ClaimedKept(obj, "reasoning_depth", ReasoningDepths, "medium")
        /\ e.task_type = ClaimedKept(obj, "task_type", TaskTypes, "other")
        /\ e.constraint_level =
             ClaimedKept(obj, "constraint_level", ConstraintLevels, "medium")
        /\ e.required_accuracy =
             ClaimedKept(obj, "required_accuracy", AccuracyRequirements, "medium")
        /\ e.estimated_token_size =
             ClaimedKept(obj, "estimated_token_size", TokenSizes, "medium")

\* A step in which request p calls evaluate (a repeated call that changes
\* nothing p can see is a stuttering step and is not counted).
CallStep(p) ==
  /\ pc[p] \in {"idle", "evaluated"}
  /\ pc'[p] \in {"evaluated", "awaitFetch"}
  /\ <<pc[p], req[p], startTime[p], ret[p], aux[p]>>
       # <<pc'[p], req'[p], startTime'[p], ret'[p], aux'[p]>>

\* The call of CallStep(p) is answered from the cache.
HitStep(p) == pc'[p] = "evaluated" /\ ret'[p].cached

\* C5 as stated: a second call for the same conversation made less than TTL
\* after the first returns cached = true and the first call's evaluation; a
\* call made after the TTL has elapsed returns cached = false.
C5_Original ==
  [][\A p \in Procs :
       (CallStep(p) /\ pc[p] = "evaluated" /\ req'[p] = req[p]) =>
         /\ (now - startTime[p] < CacheTtlMs) =>
              (HitStep(p) /\ ret'[p].evaluation = ret[p].evaluation)
         /\ (now - startTime[p] > CacheTtlMs) => ~HitStep(p)]_vars

\* C5 amended: if a call of evaluate returned an evaluation computed from a
\* validated reply (cached = false, not the default) and no other call of
\* evaluate came in between, a second call for the same conversation made
\* less than TTL after the first returns cached = true and the identical
\* evaluation, and a second call made more than TTL after the first call
\* stored its entry is not answered from the cache; every call that went to
\* the auxiliary model returns cached = false.
C5_RoundTripAfterStoredCall ==
  [][\A p \in Procs :
       /\ (CallStep(p) /\ pc[p] = "evaluated" /\ req'[p] = req[p]
             /\ ~ret[p].cached /\ ret[p].evaluation # ClaimedDefault) =>
            LET found == CacheGet(cache, ret[p].promptHash)
            IN  /\ found # <<>>
                /\ (now - startTime[p] < CacheTtlMs) =>
                     (HitStep(p) /\ ret'[p].evaluation = ret[p].evaluation)
                /\ (now - found[1].timestamp > CacheTtlMs) => pc'[p] = "awaitFetch"
       /\ (pc[p] \in {"awaitFetch", "awaitBody"} /\ pc'[p] = "evaluated") =>
            ~ret'[p].cached]_vars

\* C5 witness: a call for a conversation with the same user turns as an
\* earlier one, answered from an entry stored in the same clock tick.
C5_Witness ==
  /\ pc[1] = "evaluated"
  /\ ret[1].cached
  /\ Len(req[1]) = 2
  /\ \E i \in 1..Len(cache) :
       /\ cache[i].key = ret[1].promptHash
       /\ cache[i].timestamp = startTime[1]
       /\ cache[i].evaluation = ret[1].evaluation

\* C6 as stated: the lookup is a hit (cached = true, latencyMs = 0, no
\* auxiliary call) exactly when an entry for the hash exists and
\* now - createdAt < TTL; an entry of age >= TTL is treated as absent.
C6_Original ==
  [][\A p \in Procs :
       CallStep(p) =>
         LET found == CacheGet(cache, hashPrompt(req'[p]))
         IN  (HitStep(p) /\ ret'[p].latencyMs = 0 /\ aux'[p].outcome = "none")
               <=> (found # <<>> /\ now - found[1].timestamp < CacheTtlMs)]_vars

\* C7: whatever the interleaving of the callers, the cache never holds more
\* than the bound of entries nor two entries for one hash.
C7_CacheBoundedOneEntryPerHash ==
  /\ Len(cache) <= MaxCacheEntries
  /\ \A i, j \in 1..Len(cache) : cache[i].key = cache[j].key => i = j

\* C7 witness: the cache is full, request 1 has inserted its entry while
\* request 2 was in flight, and request 2 is about to insert a new key.
C7_Witness ==
  /\ Len(cache) = MaxCacheEntries
  /\ pc[1] = "evaluated" /\ ~ret[1].cached
  /\ pc[2] = "awaitBody"
  /\ hashPrompt(req[2]) \notin CacheKeys(cache)
  /\ \E i \in 1..Len(cache) :
       cache[i].key = ret[1].promptHash /\ cache[i].timestamp > startTime[2]

\* C8: when setCache brings the cache above the bound it deletes exactly
\* size - bound entries, they are entries with the smallest timestamps, and
\* the entry just inserted stays.
C8_EvictsExactlyTheOldest ==
  [][\A p \in Procs :
       (pc[p] = "awaitBody" /\ pc'[p] = "evaluated"
          /\ ret'[p].evaluation # ClaimedDefault) =>
         LET h       == ret'[p].promptHash
             old     == {i \in 1..Len(cache) : cache[i].key # h}
             size    == Cardinality(old) + 1
             deleted == {i \in old : cache[i].key \notin CacheKeys(cache')}
             kept    == old \ deleted
         IN  /\ \E j \in 1..Len(cache') :
                  cache'[j] = CacheEntry(h, ret'[p].evaluation, now)
             /\ Cardinality(deleted) =
                  IF size > MaxCacheEntries THEN size - MaxCacheEntries ELSE 0
             /\ \A d \in deleted, k \in kept :
                  cache[d].timestamp <= cache[k].timestamp
             /\ \A k \in kept : \E j \in 1..Len(cache') : cache'[j] = cache[k]
             /\ Len(cache') = Cardinality(kept) + 1]_vars

\* C8 witness: the cache is full, request 1's entry is in it, and the entry
\* request 2 stored in this very clock tick is gone: it was evicted.
C8_Witness ==
  /\ Len(cache) = MaxCacheEntries
  /\ pc[1] = "evaluated" /\ ~ret[1].cached /\ ret[1].evaluation # ClaimedDefault
  /\ pc[2] = "evaluated" /\ ~ret[2].cached /\ ret[2].evaluation # ClaimedDefault
  /\ ret[1].promptHash \in CacheKeys(cache)
  /\ ret[2].promptHash \notin CacheKeys(cache)
  /\ startTime[2] = now

(* ===================== properties: the routing engine ================= *)

ClaimedRule(when, tier, text) == [when |-> when, tier |-> tier, text |-> text]

\* The rules in their priority order, as the specification lists them; the
\* banding of rule 7 is its three cases in order.
ClaimedRules(e, th) ==
  << ClaimedRule(e.estimated_token_size = "very_large", "pro",
                 "Very large token size forces PRO"),
     ClaimedRule(e.confidence < 600, "mid", "Low confidence (c) defaults to MID"),
     ClaimedRule(e.complexity_score > 90 /\ e.confidence < 700, "mid",
                 "High score (s) but low confidence (c) -> MID"),
     ClaimedRule(e.task_type \in {"visualization", "writing", "summarization"}
                   /\ e.complexity_score < 70, "mid",
                 "t task prefers MID (score: s)"),
     ClaimedRule(e.task_type = "coding" /\ e.complexity_score < 70, "mid",
                 "Coding task with score s stays in MID"),
     ClaimedRule(e.task_type \in {"architecture_design", "mathematical_reasoning",
                                  "multi_step_planning"}
                   /\ e.complexity_score >= 65, "pro", "t with score s -> PRO"),
     ClaimedRule(e.complexity_score >= th.proThreshold, "pro", "Score s >= th -> PRO"),
     ClaimedRule(e.complexity_score >= th.midThreshold, "mid", "Score s >= th -> MID"),
     ClaimedRule(TRUE, "low", "Score s < th -> LOW") >>

FirstMatch(rules) ==
  rules[CHOOSE i \in 1..Len(rules) :
          rules[i].when /\ \A j \in 1..(i - 1) : ~rules[j].when]

\* C9: for every evaluation and threshold pair decide returns one tier, the
\* outcome of the first rule that matches in the fixed order, with that
\* rule's reasoning; the decision carries the evaluation's score, task type
\* and confidence and the cached flag.
C9_FirstMatchingRuleDecides ==
  decideOut # <<>> =>
    LET e == decideIn.evaluation
        m == FirstMatch(ClaimedRules(e, thresholds))
        d == decideOut[1]
    IN  /\ d.tier \in RouteTiers
        /\ d.tier = m.tier
        /\ d.reasoning.text = m.text
        /\ d.score = e.complexity_score
        /\ d.taskType = e.task_type
        /\ d.confidence = e.confidence
        /\ d.cached = decideIn.cached

\* C9 witness: rule 6 sends architecture_design with score 65 to pro although
\* the score is below proThreshold, and rule 2 did not fire at confidence 0.6.
C9_Witness ==
  /\ decideOut # <<>>
  /\ decideIn.evaluation.task_type = "architecture_design"
  /\ decideIn.evaluation.complexity_score = 65
  /\ decideIn.evaluation.confidence = 600
  /\ decideIn.evaluation.estimated_token_size = "small"
  /\ thresholds.proThreshold = 95
  /\ decideOut[1].tier = "pro"
  /\ decideOut[1].reasoning.text = "t with score s -> PRO"

\* C10: with confidence < 0.6 decide never returns low: it returns mid,
\* unless the token size is very_large, in which case it returns pro.
C10_LowConfidenceNeverLow ==
  (decideOut # <<>> /\ decideIn.evaluation.confidence < 600) =>
    /\ decideOut[1].tier # "low"
    /\ decideOut[1].tier =
         IF decideIn.evaluation.estimated_token_size = "very_large"
           THEN "pro" ELSE "mid"

\* C10 witness: score 0 under midThreshold 80 with confidence 0.599 goes to
\* mid, where the banding alone would give low.
C10_Witness ==
  /\ decideOut # <<>>
  /\ decideIn.evaluation.confidence = 599
  /\ decideIn.evaluation.complexity_score = 0
  /\ decideIn.evaluation.estimated_token_size = "small"
  /\ thresholds.midThreshold = 80
  /\ decideOut[1].tier = "mid"

\* The tier the claim gives an input that reaches rule 7.
ClaimedBand(score, pro, mid) ==
  IF score >= pro THEN "pro"
  ELSE IF mid <= score /\ score < pro THEN "mid"
  ELSE "low"

\* The configured value of a threshold: the one given to the constructor,
\* or the default (75 / 35) when none was given.
ClaimedThreshold(given, dflt) == IF given = <<>> THEN dflt ELSE given[1]

\* No rule before rule 7 matches the evaluation.
ReachesRule7(e) ==
  /\ e.estimated_token_size # "very_large"
  /\ e.confidence >= 600
  /\ ~(e.complexity_score > 90 /\ e.confidence < 700)
  /\ ~(e.task_type \in {"visualization", "writing", "summarization", "coding"}
         /\ e.complexity_score < 70)
  /\ ~(e.task_type \in {"architecture_design", "mathematical_reasoning",
                         "multi_step_planning"}
         /\ e.complexity_score >= 65)

\* C11: each threshold is overridable on its own: a threshold not given to
\* the constructor is 75 (pro) or 35 (mid), a given one is used as given,
\* and every decision that reaches rule 7 is pro iff score >= proThreshold,
\* mid iff midThreshold <= score < proThreshold, and low otherwise, with
\* those configured values.
C11_ThresholdsIndependentlyOverridable ==
  LET pro == ClaimedThreshold(routing.proThreshold, 75)
      mid == ClaimedThreshold(routing.midThreshold, 35)
  IN  /\ thresholds.proThreshold = pro
      /\ thresholds.midThreshold = mid
      /\ (decideOut # <<>> /\ ReachesRule7(decideIn.evaluation))
           => decideOut[1].tier =
                ClaimedBand(decideIn.evaluation.complexity_score, pro, mid)

\* Only midThreshold was given (80): a score of 75 that reaches rule 7 is
\* pro by the default proThreshold, and a score of 74 is low.
C11_Witness ==
  /\ routing.proThreshold = <<>>
  /\ routing.midThreshold = <<80>>
  /\ decideOut # <<>>
  /\ ReachesRule7(decideIn.evaluation)
  /\ decideIn.evaluation.complexity_score = 74
  /\ decideOut[1].tier = "low"

(* ==================== properties: forwarding and fallback ============= *)

\* The tier a model name names explicitly: <<tier>>, or <<>> for any other
\* name.
ClaimedExplicitTier(model) ==
  IF model \in {"pro", "helix-router/pro"} THEN << "pro" >>
  ELSE IF model \in {"mid", "helix-router/mid"} THEN << "mid" >>
  ELSE IF model \in {"low", "helix-router/low"} THEN << "low" >>
  ELSE <<>>

\* The configured model id of a tier.
ClaimedModelId(tier) ==
  CASE tier = "pro" -> "model-pro"
    [] tier = "mid" -> "model-mid"
    [] tier = "low" -> "model-low"

\* C12: in the non-streaming path every backend call made for a request
\* whose model names a tier explicitly carries that tier's configured model
\* id as body.model, on the first attempt and on the mid fallback attempt,
\* whatever tier decide computed.
C12_ExplicitTierModelForwarded ==
  (~request.stream /\ ClaimedExplicitTier(request.model) # <<>>)
    => \A i \in 1..Len(calls) :
         calls[i].body.model = ClaimedModelId(ClaimedExplicitTier(request.model)[1])

\* A request for "low" that decide routed to pro: the first attempt and the
\* fallback attempt were both made, each with the low model id.
C12_Witness ==
  /\ ~request.stream
  /\ request.model = "low"
  /\ decision # <<>>
  /\ decision[1].tier = "pro"
  /\ Len(calls) = 2
  /\ calls[1].baseUrl = "url-pro"
  /\ calls[2].baseUrl = "url-mid"
  /\ calls[1].body.model = "model-low"
  /\ calls[2].body.model = "model-low"

\* C13 (as stated): in the streaming path the backend call made for a
\* request whose model names a tier explicitly carries that tier's
\* configured model id as body.model, whatever tier decide computed.
C13_Original ==
  (request.stream /\ ClaimedExplicitTier(request.model) # <<>>)
    => \A i \in 1..Len(calls) :
         calls[i].body.model = ClaimedModelId(ClaimedExplicitTier(request.model)[1])

\* The caller was sent the one structured internal-error response.
ClaimedInternalError(c) ==
  c.status = 500 /\ c.body = "internal_error" /\ c.ended

\* A backend call to the mid provider whose body is the request with at
\* most model changed.
ClaimedMidRetry(call, r) ==
  /\ call.baseUrl = "url-mid"
  /\ [call.body EXCEPT !.model = r.model] = r

\* C14: in the non-streaming path, when evaluate throws (the request has no
\* messages array) or the fetch for the computed tier rejects, exactly one
\* further backend call is made, to the mid provider, with the request body
\* changed only in model; while and after that call no other call is made
\* for the request, and if it rejects too the caller receives one HTTP 500
\* response with error.type = internal_error.
C14_OneMidRetryThenInternalError ==
  [][ ~request.stream =>
        /\ (hpc = "evaluate" /\ request.messages = <<>> /\ hpc' # hpc)
             => /\ Len(calls') = Len(calls) + 1
                /\ SubSeq(calls', 1, Len(calls)) = calls
                /\ ClaimedMidRetry(calls'[Len(calls')], request)
        /\ (hpc = "forward" /\ response'.body = "rejected")
             => /\ Len(calls') = Len(calls) + 1
                /\ SubSeq(calls', 1, Len(calls)) = calls
                /\ ClaimedMidRetry(calls'[Len(calls')], request)
        /\ (hpc \in {"fallback", "json", "done"} /\ hpc' # "evaluate")
             => calls' = calls
        /\ (hpc = "fallback" /\ response'.body = "rejected")
             => ClaimedInternalError(client') /\ hpc' = "done"
    ]_vars

\* The routed call and the mid retry both rejected: two calls were made and
\* the caller holds the internal error.
C14_Witness ==
  /\ ~request.stream
  /\ decision # <<>>
  /\ decision[1].tier = "pro"
  /\ Len(calls) = 2
  /\ calls[2].baseUrl = "url-mid"
  /\ response.body = "rejected"
  /\ hpc = "done"
  /\ client.status = 500

\* C15 (as stated): in the non-streaming path a non-2xx response of the
\* computed tier's backend is never what the request answers with: the one
\* call made so far did not hand a non-2xx response to the server.
C15_Original ==
  (~request.stream /\ decision # <<>> /\ Len(calls) = 1 /\ hpc \in {"json", "done"})
    => response.ok

\* C16 (as stated): in the streaming path, a backend call for the computed
\* tier that failed (rejected, non-2xx, no body, or a read that rejected)
\* before any chunk was relayed is followed by exactly one retry against
\* the mid provider.
C16_Original ==
  ( /\ request.stream
    /\ decision # <<>>
    /\ hpc = "done"
    /\ response.body \in {"rejected", "error", "nobody", "readerror"}
    /\ \A i \in 1..Len(client.events) : client.events[i].kind = "error" )
    => /\ Len(calls) = 2
       /\ calls[2].baseUrl = "url-mid"

\* C17: when a read of the stream rejects after at least one chunk was
\* relayed, the caller is sent exactly one error event after the chunks it
\* already has, the response is ended, and no backend call is made; once
\* the response is ended nothing more is sent for the request.
C17_MidStreamFailureEndsWithOneError ==
  [][ request.stream =>
        /\ (hpc = "reading" /\ client.events # <<>> /\ response'.body = "readerror")
             => /\ Len(client'.events) = Len(client.events) + 1
                /\ SubSeq(client'.events, 1, Len(client.events)) = client.events
                /\ client'.events[Len(client'.events)].kind = "error"
                /\ client'.ended
                /\ calls' = calls
                /\ hpc' = "done"
        /\ (hpc = "done" /\ hpc' # "evaluate")
             => client' = client /\ calls' = calls
    ]_vars

\* A stream that failed after two chunks: the caller has the two chunks and
\* then the error event, from the only backend call.
C17_Witness ==
  /\ request.stream
  /\ hpc = "done"
  /\ response.body = "readerror"
  /\ Len(client.events) = 3
  /\ client.events[1].kind = "chunk"
  /\ client.events[2].kind = "chunk"
  /\ client.events[3].kind = "error"
  /\ client.ended
  /\ Len(calls) = 1

\* C18 (as stated): a non-streaming request is answered either with a
\* completion or with the one structured internal-error response; a
\* backend error body is never answered with status 200.
C18_Original ==
  (~request.stream /\ hpc = "done")
    => \/ client.status = 200 /\ client.body = "completion"
       \/ ClaimedInternalError(client)

(* ========================= properties: the stream ===================== *)

\* The newline-terminated lines of a text, in order, read one character at
\* a time; what follows the last newline is not a line yet.
RECURSIVE ClaimedCompleteLines(_, _)
ClaimedCompleteLines(text, current) ==
  IF text = <<>> THEN <<>>
  ELSE IF Head(text) = "\n"
    THEN << current >> \o ClaimedCompleteLines(Tail(text), <<>>)
    ELSE ClaimedCompleteLines(Tail(text), Append(current, Head(text)))

\* What follows the last newline of a text.
RECURSIVE ClaimedPartialLine(_, _)
ClaimedPartialLine(text, current) ==
  IF text = <<>> THEN current
  ELSE IF Head(text) = "\n"
    THEN ClaimedPartialLine(Tail(text), <<>>)
    ELSE ClaimedPartialLine(Tail(text), Append(current, Head(text)))

\* The events written to the caller while the stream is read: all of them
\* but the closing [DONE] or error event.
RelayedChunks ==
  IF client.ended
    THEN SubSeq(client.events, 1, Len(client.events) - 1)
    ELSE client.events

\* C19: however the backend body is split into reads, the chunks relayed
\* after reading a prefix of it are those of the newline-terminated lines
\* of that prefix, each parsed once and in order, and the unterminated rest
\* waits in the buffer unparsed; so a body read to its end yields the same
\* chunks for every split.
C19_YieldsIndependentOfReadBoundaries ==
  (request.stream /\ response.body \in {"stream", "readerror"} /\ decision # <<>>)
    => LET consumed == SubSeq(wire, 1, pos)
           tier     == decision[1].tier
       IN  /\ RelayedChunks =
                 StreamLines(ClaimedCompleteLines(consumed, <<>>), tier,
                             getProvider(tier).model)
           /\ buffer = ClaimedPartialLine(consumed, <<>>)

\* A read ended inside the second data line: the first line's chunk has
\* been relayed and the started line waits in the buffer.
C19_Witness ==
  /\ request.stream
  /\ hpc = "reading"
  /\ Len(client.events) = 1
  /\ client.events[1].kind = "chunk"
  /\ buffer = <<" ">> \o DataPrefix \o <<"{", " ">>

\* A data line as the claim has it: after trimming it starts with "data:".
ClaimedDataLine(line) == StartsWith(Trim(line), DataPrefix)

ClaimedPayload(line) == Trim(SubSeq(Trim(line), 6, Len(Trim(line))))

\* A well-formed data line carries a JSON object; the end marker [DONE] is
\* no chunk of the backend's.
ClaimedWellFormed(line) ==
  ClaimedDataLine(line) /\ ClaimedPayload(line) \in JsonObjects

\* A data line whose payload is not valid JSON.
ClaimedMalformed(line) ==
  /\ ClaimedDataLine(line)
  /\ ClaimedPayload(line) # DoneText
  /\ ClaimedPayload(line) \notin JsonObjects \cup JsonPrimitives

\* C20: a data line whose payload is not valid JSON yields nothing and does
\* not end the stream: the chunk events relayed are exactly the payloads of
\* the well-formed data lines read so far, once each and in the backend's
\* order, and the response ends only when the backend body has ended or a
\* read has failed.
C20_MalformedLinesSkipped ==
  (request.stream /\ response.body \in {"stream", "readerror"} /\ decision # <<>>)
    => LET lines  == ClaimedCompleteLines(SubSeq(wire, 1, pos), <<>>)
           good   == SelectSeq(lines, ClaimedWellFormed)
           chunks == SelectSeq(client.events, LAMBDA e : e.kind = "chunk")
       IN  /\ Len(chunks) = Len(good)
           /\ \A i \in 1..Len(good) : chunks[i].data = ClaimedPayload(good[i])
           /\ client.ended => (pos = Len(wire) \/ response.body = "readerror")

\* A body of a chunk, a truncated chunk and another chunk was read to its
\* end: both chunks were relayed, in order, and the stream closed normally.
C20_Witness ==
  /\ request.stream
  /\ hpc = "done"
  /\ response.body = "stream"
  /\ LET lines == ClaimedCompleteLines(wire, <<>>)
     IN  /\ Len(lines) = 3
         /\ ClaimedWellFormed(lines[1])
         /\ ClaimedMalformed(lines[2])
         /\ ClaimedWellFormed(lines[3])
         /\ ClaimedPayload(lines[1]) # ClaimedPayload(lines[3])
  /\ Len(client.events) = 3
  /\ client.events[1].kind = "chunk"
  /\ client.events[2].kind = "chunk"
  /\ client.events[3].kind = "done"

(* ================= properties: streams, statistics, telemetry ========= *)

\* Where in the events sent to the caller the [DONE] markers are.
ClaimedDoneMarkers == { i \in 1..Len(client.events) : client.events[i].kind = "done" }


\* C21: a stream that completes normally is sent exactly one [DONE] marker,
\* as the last event before the response ends, with no relayed chunk after
\* it; a stream that ends with an error, and one that has not ended, has no
\* [DONE] marker.
C21_OneDoneMarkerEndsCompletedStream ==
  request.stream
    => /\ (hpc = "done" /\ response.body = "stream" /\ pos = Len(wire)
             /\ ~(\E i \in 1..Len(client.events) : client.events[i].kind = "error"))
            => client.ended /\ ClaimedDoneMarkers = { Len(client.events) }
       /\ (\E i \in 1..Len(client.events) : client.events[i].kind = "error")
            => ClaimedDoneMarkers = {}
       /\ ~client.ended => ClaimedDoneMarkers = {}

\* A stream of a chunk and the backend's end marker completed: the caller
\* has the chunk, the stop chunk and then the one [DONE] marker.
C21_Witness ==
  /\ request.stream
  /\ hpc = "done"
  /\ response.body = "stream"
  /\ client.ended
  /\ Len(client.events) = 3
  /\ client.events[1].kind = "chunk"
  /\ client.events[2].kind = "stop"
  /\ client.events[3].kind = "done"

\* The model name the specification gives every chunk of a stream.
ClaimedChunkModel(tier) ==
  CASE tier = "pro" -> "helix-router/pro"
    [] tier = "mid" -> "helix-router/mid"
    [] tier = "low" -> "helix-router/low"

\* C22 (as stated): every chunk handleStreamRequest yields, the one made for
\* the backend's [DONE] sentinel included, carries the model name
\* helix-router/<tier> of the tier decided, never the provider's model id.
C22_Original ==
  (request.stream /\ decision # <<>>)
    => \A i \in 1..Len(client.events) :
         client.events[i].kind \in {"chunk", "stop"}
           => client.events[i].model = ClaimedChunkModel(decision[1].tier)

\* The sum of a field over the entries recorded since the last reset.
RECURSIVE ClaimedSumOver(_, _)
ClaimedSumOver(entries, field) ==
  IF entries = {} THEN 0
  ELSE LET e == CHOOSE x \in entries : TRUE
       IN  CopiesIn(e, recorded) * e[field] + ClaimedSumOver(entries \ {e}, field)

ClaimedSum(field) == ClaimedSumOver(BagToSet(recorded), field)

\* How many of the entries recorded since the last reset satisfy a test.
ClaimedCount(Test(_)) ==
  BagCardinality([e \in { x \in BagToSet(recorded) : Test(x) } |-> CopiesIn(e, recorded)])

\* a / b rounded to the nearest integer, halves upwards.
ClaimedRound(a, b) == (2 * a + b) \div (2 * b)

\* C23 (as stated): after N >= 1 records since the last reset, avgScore,
\* avgLatencyMs and avgEvaluationMs are the rounded means of the recorded
\* values, and cacheHitRate is round(100 * cachedCount / N).
C23_Original ==
  LET stats == statsTracker.tracker.stats
      N     == BagCardinality(recorded)
  IN  N >= 1
        => /\ stats.avgScore = ClaimedRound(ClaimedSum("score"), N)
           /\ stats.avgLatencyMs = ClaimedRound(ClaimedSum("latencyMs"), N)
           /\ stats.avgEvaluationMs = ClaimedRound(ClaimedSum("evaluationLatencyMs"), N)
           /\ stats.cacheHitRate = ClaimedRound(100 * ClaimedCount(LAMBDA e : e.cached), N)

\* The sum of the counts a counts object holds for the keys given.
RECURSIVE ClaimedTotal(_, _)
ClaimedTotal(counts, keys) ==
  IF keys = {} THEN 0
  ELSE LET k == CHOOSE x \in keys : TRUE
       IN  counts[k] + ClaimedTotal(counts, keys \ {k})

\* What a reader who calls getStats now reads.
ClaimedAggregates == ReadStats(getStats(statsTracker), statsTracker.heap)

\* C24: whenever the aggregates can be observed, totalRequests is the number
\* of entries recorded since the last reset, and equals the sum of the three
\* per-tier counts and the sum of the per-task-type counts, each of which
\* counts the recorded entries of its tier or task type; each of the three
\* averages is the rounded sum of the recorded values divided by
\* totalRequests (0 when nothing is recorded): every entry's contribution is
\* applied as a whole.
C24_AggregatesConsistentWhenObserved ==
  LET seen == ClaimedAggregates
      N    == seen.totalRequests
  IN  /\ N = BagCardinality(recorded)
      /\ N = ClaimedTotal(seen.routeCounts, RouteTiers)
      /\ N = ClaimedTotal(seen.taskTypeCounts, TaskTypes)
      /\ \A t \in RouteTiers :
           seen.routeCounts[t] = ClaimedCount(LAMBDA e : e.route = t)
      /\ \A t \in TaskTypes :
           seen.taskTypeCounts[t] = ClaimedCount(LAMBDA e : e.taskType = t)
      /\ seen.avgScore = IF N = 0 THEN 0 ELSE ClaimedRound(ClaimedSum("score"), N)
      /\ seen.avgLatencyMs =
           IF N = 0 THEN 0 ELSE ClaimedRound(ClaimedSum("latencyMs"), N)
      /\ seen.avgEvaluationMs =
           IF N = 0 THEN 0 ELSE ClaimedRound(ClaimedSum("evaluationLatencyMs"), N)

\* A low and a pro entry were recorded after a reset: two requests, one per
\* tier, and averages that round 57.5 and 3.5 upwards.
C24_Witness ==
  /\ Len(statsTracker.heap) > 2
  /\ ClaimedAggregates.totalRequests = 2
  /\ ClaimedAggregates.routeCounts = [pro |-> 1, mid |-> 0, low |-> 1]
  /\ ClaimedAggregates.avgScore = 58
  /\ ClaimedAggregates.avgLatencyMs = 4
  /\ ClaimedAggregates.avgEvaluationMs = 1

\* A tracker with the two counts objects read off its heap.
ClaimedState(t) ==
  [t.tracker EXCEPT !.stats = ReadStats(t.tracker.stats, t.heap)]

\* C25: reset zeroes every counter, the hidden running sums included: after
\* a reset and any sequence of records, the statistics (and the running
\* sums) are those of a new StatsTracker given the same records.
C25_ResetThenRecordsEqualsFreshTracker ==
  Len(statsTracker.heap) > 2 => ClaimedState(statsTracker) = ClaimedState(fresh)

\* Two entries were recorded, the tracker was reset, and a low and a pro
\* entry were recorded since.
C25_Witness ==
  /\ Len(statsTracker.heap) > 2
  /\ ClaimedTotal(statsTracker.heap[1], RouteTiers) >= 2
  /\ ClaimedState(statsTracker).stats.totalRequests = 2
  /\ ClaimedState(statsTracker).stats.avgScore = 58
  /\ ClaimedState(statsTracker).totalScore = 115

\* C26 (as stated): the value getStats returned is a snapshot: what its
\* holder reads from it, the per-tier and per-task-type counts included, is
\* what was read when it was returned, whatever is recorded or reset later.
C26_Original ==
  snapshot # <<>>
    => ReadStats(snapshot[1].stats, statsTracker.heap) = snapshot[1].seen

\* C27: when the append to the log file fails, logRouting returns normally;
\* the step that logs a non-streaming request hands the backend response it
\* has to the server, makes no further backend call and sends the caller no
\* error, and the server then answers with that response; the step that
\* logs a completed stream ends it with the [DONE] marker as usual.
C27_AppendFailureNeverPropagates ==
  [][ (enabled /\ storage = "failing" /\ decision # <<>> /\ evalResult # <<>>)
        => /\ ~logRouting(logFile, statsTracker, LogEntry, enabled, FALSE).threw
           /\ (hpc = "forward" /\ hpc' # "forward" /\ response'.body # "rejected")
                => /\ hpc' = "json"
                   /\ calls' = calls
                   /\ client' = client
           /\ (hpc = "json" /\ hpc' = "done" /\ response.body = "completion")
                => client' = ClientState(200, "completion", <<>>, TRUE)
           /\ (hpc = "reading" /\ hpc' = "done" /\ response' = response)
                => /\ client'.events = Append(client.events, DoneEvent)
                   /\ calls' = calls
    ]_vars

\* With logging on and the log file failing, a non-streaming request was
\* answered with the completion of the one backend call made, and nothing
\* was logged.
C27_Witness ==
  /\ enabled
  /\ storage = "failing"
  /\ ~request.stream
  /\ hpc = "done"
  /\ Len(calls) = 1
  /\ client = ClientState(200, "completion", <<>>, TRUE)
  /\ logFile = <<>>

\* The log entries of the request being handled.
ClaimedEntries == SelectSeq(logFile, LAMBDA e : e.requestId = requestId)

\* The request ended with a completion delivered to the caller.
ClaimedDelivered ==
  /\ hpc = "done"
  /\ IF request.stream
       THEN /\ client.ended
            /\ client.events # <<>>
            /\ client.events[Len(client.events)].kind = "done"
       ELSE client = ClientState(200, "completion", <<>>, TRUE)

\* C28 (as stated): with logging enabled and the log file working, a request
\* that ended with a completion delivered to the caller, from the computed
\* tier or from mid after a fallback, streaming or not, has exactly one log
\* entry, and no request ever has more than one.
C28_Original ==
  /\ Len(ClaimedEntries) <= 1
  /\ (enabled /\ storage = "ok" /\ ClaimedDelivered) => Len(ClaimedEntries) = 1

\* C29: within one request the backend call for the computed tier is issued
\* in a step that starts with evaluate returned and the decision not yet
\* made, and makes the decision; once a backend call has been issued no
\* call of the auxiliary model is started or settled for the request; and a
\* log entry is written only by the step in which the backend call of a
\* non-streaming request resolves, or in which the body of a streaming
\* request is found read to its end.
C29_StagesInOrder ==
  [][ /\ (calls' # calls /\ hpc' \in {"forward", "streamFetch"})
           => /\ pc[1] = "evaluated"
              /\ calls = <<>>
              /\ decision = <<>>
              /\ decision' = << decide(thresholds, ret[1].evaluation, ret[1].cached) >>
              /\ calls'[1].baseUrl = getProvider(decision'[1].tier).baseUrl
      /\ (calls # <<>> /\ hpc' # "evaluate")
           => aux' = aux /\ pc' = pc
      /\ (logFile' # logFile)
           => /\ calls # <<>>
              /\ decision # <<>>
              /\ IF request.stream
                   THEN hpc = "reading" /\ pos = Len(wire) /\ client'.ended
                   ELSE hpc = "forward" /\ response'.body # "rejected"
                          /\ response' # NoResponse
    ]_vars

\* A non-streaming request whose evaluation called the auxiliary model was
\* routed to pro, its one backend call returned, and its entry was logged.
C29_Witness ==
  /\ ~request.stream
  /\ hpc = "json"
  /\ evalResult # <<>>
  /\ ~evalResult[1].cached
  /\ decision # <<>>
  /\ decision[1].tier = "pro"
  /\ Len(calls) = 1
  /\ calls[1].baseUrl = "url-pro"
  /\ Len(ClaimedEntries) = 1
  /\ ClaimedEntries[1].route = "pro"

\* C30 (as stated): whenever a stream whose backend body got a reader has
\* ended (it completed, a read threw, or the consumer stopped iterating),
\* the reader has been cancelled or its lock released.
C30_Original ==
  (request.stream /\ hpc = "done" /\ response.body \in {"stream", "readerror", "abandoned"})
    => reader = "released"

(* ============ properties: hashing, defaults, routing, forwarding ====== *)

\* The contents of the user turns of a conversation, in order.
ClaimedUserTurns(messages) ==
  LET turns == SelectSeq(messages, LAMBDA m : m.role = "user")
  IN  [i \in 1..Len(turns) |-> turns[i].content]

\* Conversations of at most two turns of any role.
ClaimedConversations ==
  LET turns == { Msg(role, content) :
                   role \in {"user", "system", "assistant", "tool"},
                   content \in { <<97>>, <<98>>, <<97, 124, 98>> } }
  IN  UNION { [1..k -> turns] : k \in 0..2 }

\* Conversations with the same user turns in the same order have the same
\* hash.
ClaimedHashOfUserTurns ==
  \A c1, c2 \in ClaimedConversations :
    ClaimedUserTurns(c1) = ClaimedUserTurns(c2) => hashPrompt(c1) = hashPrompt(c2)

\* The call of CallStep(p) follows a call for a conversation with the same
\* user turns and other turns of the other roles.
ClaimedSameUserTurns(p) ==
  /\ CallStep(p)
  /\ pc[p] = "evaluated"
  /\ req'[p] # req[p]
  /\ ClaimedUserTurns(req'[p]) = ClaimedUserTurns(req[p])

\* C31 (as stated): two conversations with the same user turns in the same
\* order have the same hash, and the second one, evaluated less than TTL
\* after the first, is answered from the cache with the first one's
\* evaluation and without an auxiliary call.
C31_Original ==
  [][\A p \in Procs :
       ClaimedSameUserTurns(p) =>
         /\ hashPrompt(req'[p]) = hashPrompt(req[p])
         /\ (now - startTime[p] < CacheTtlMs) =>
              /\ HitStep(p)
              /\ ret'[p].evaluation = ret[p].evaluation
              /\ aux'[p].outcome = "none"]_vars

\* C31 amended: conversations with the same user turns in the same order
\* have the same hash; and when the evaluation of the first was computed
\* from a validated reply (cached = false, not the default) and no other
\* call of evaluate came in between, the second one, evaluated less than TTL
\* after the first, is answered from the cache with the first one's
\* evaluation and without an auxiliary call.
C31_SameUserTurnsSameHashAndHit ==
  [][/\ ClaimedHashOfUserTurns
     /\ \A p \in Procs :
          ClaimedSameUserTurns(p) =>
            /\ hashPrompt(req'[p]) = hashPrompt(req[p])
            /\ (~ret[p].cached /\ ret[p].evaluation # ClaimedDefault
                  /\ now - startTime[p] < CacheTtlMs) =>
                 /\ HitStep(p)
                 /\ ret'[p].evaluation = ret[p].evaluation
                 /\ ret'[p].promptHash = ret[p].promptHash
                 /\ aux'[p].outcome = "none"]_vars

\* A conversation with a system turn before its user turn was answered from
\* the entry that the conversation of the user turn alone had stored.
C31_Witness ==
  /\ pc[1] = "evaluated"
  /\ ret[1].cached
  /\ req[1] = << Msg("system", <<98>>), Msg("user", <<97>>) >>
  /\ ret[1].promptHash = hashPrompt(<< Msg("user", <<97>>) >>)
  /\ ret[1].evaluation # ClaimedDefault
  /\ aux[1].outcome = "none"

\* C32: under any interleaving of two concurrent callers, a call of evaluate
\* whose cache lookup misses issues one auxiliary-model call and suspends on
\* it, a call whose lookup hits issues none and returns at once, and no step
\* other than a call of evaluate issues an auxiliary call: a settled or
\* absent call never becomes pending again within the same evaluate call.
C32_OneAuxiliaryCallPerMiss ==
  [][\A p \in Procs :
       /\ CallStep(p) =>
            LET hit == getCached(cache, hashPrompt(req'[p]), now).hit
            IN  /\ hit => (aux'[p].outcome = "none" /\ pc'[p] = "evaluated")
                /\ ~hit => (aux'[p].outcome = "pending" /\ pc'[p] = "awaitFetch")
       /\ ~CallStep(p) =>
            /\ (aux'[p].outcome = "pending") => (aux[p] = aux'[p] /\ pc'[p] = pc[p])
            /\ (pc[p] \in {"awaitFetch", "awaitBody"}) =>
                 pc'[p] \in {pc[p], "awaitBody", "evaluated"}
            /\ (pc[p] = "awaitBody") => pc'[p] # "awaitFetch"]_vars

\* One caller is suspended on its auxiliary call while the other has just
\* been answered from the cache.
C32_Witness ==
  /\ pc[1] = "awaitFetch" /\ aux[1].outcome = "pending"
  /\ pc[2] = "evaluated" /\ ret[2].cached /\ aux[2].outcome = "none"

\* C33 (as stated): when the evaluation failed and the default evaluation was
\* routed, the tier is mid, for every configured threshold pair with
\* midThreshold <= proThreshold.
C33_Original ==
  (/\ decideOut # <<>>
   /\ ~replyOut[1].store
   /\ thresholds.midThreshold <= thresholds.proThreshold)
    => decideOut[1].tier = "mid"

\* An evaluation as validation and recalculation leave it: every categorical
\* field in its table, the score recomputed from them, confidence in [0, 1].
ClaimedFromValidatedReply(e) ==
  /\ e.reasoning_depth \in ReasoningDepths
  /\ e.task_type \in TaskTypes
  /\ e.constraint_level \in ConstraintLevels
  /\ e.required_accuracy \in AccuracyRequirements
  /\ e.estimated_token_size \in TokenSizes
  /\ e.complexity_score = ClaimedScoreOf(e)
  /\ e.confidence \in 0..1000
  /\ e # ClaimedDefault

\* The step in which the evaluate call of p returns the default.
ClaimedFailStep(p) ==
  /\ pc[p] \in {"awaitFetch", "awaitBody"}
  /\ pc'[p] = "evaluated"
  /\ ret'[p].evaluation = ClaimedDefault

\* p, holding the default of a failed evaluation, calls evaluate again for
\* the same conversation.
ClaimedCallAfterFailure(p) ==
  /\ CallStep(p)
  /\ pc[p] = "evaluated"
  /\ req'[p] = req[p]
  /\ ~ret[p].cached
  /\ ret[p].evaluation = ClaimedDefault

\* C34 (as stated): a failed evaluation leaves the cache unchanged, the next
\* evaluate call for the same conversation issues a new auxiliary call, and
\* every result with cached = true carries an evaluation produced from a
\* validated reply.
C34_Original ==
  [][\A p \in Procs :
       /\ ClaimedFailStep(p) => cache' = cache
       /\ ClaimedCallAfterFailure(p) =>
            (~HitStep(p) /\ aux'[p].outcome = "pending")
       /\ (CallStep(p) /\ HitStep(p)) =>
            ClaimedFromValidatedReply(ret'[p].evaluation)]_vars

\* C34 amended: the step in which evaluate returns the default leaves the
\* cache unchanged, and the lookup of a call that misses changes it at most
\* by deleting the expired entry of its own hash; every entry of the cache,
\* and every result with cached = true, carries an evaluation produced from
\* a validated reply, never the default. The next evaluate call for the same
\* conversation issues a new auxiliary call unless another call has stored
\* an evaluation for that hash in the meantime, in which case it is answered
\* with that stored evaluation.
C34_FailedEvaluationStoresNothing ==
  [][\A p \in Procs :
       /\ ClaimedFailStep(p) => cache' = cache
       /\ (CallStep(p) /\ ~HitStep(p)) =>
            cache' \in {cache, CacheDelete(cache, {hashPrompt(req'[p])})}
       /\ ClaimedCallAfterFailure(p) =>
            LET found == CacheGet(cache, hashPrompt(req'[p]))
            IN  /\ HitStep(p) =>
                     /\ found # <<>>
                     /\ now - found[1].timestamp <= CacheTtlMs
                     /\ ret'[p].evaluation = found[1].evaluation
                     /\ aux'[p].outcome = "none"
                /\ ~HitStep(p) =>
                     /\ aux'[p].outcome = "pending"
                     /\ (found = <<>> \/ now - found[1].timestamp > CacheTtlMs)
       /\ (CallStep(p) /\ HitStep(p)) =>
            ClaimedFromValidatedReply(ret'[p].evaluation)
       /\ \A i \in 1..Len(cache') :
            ClaimedFromValidatedReply(cache'[i].evaluation)]_vars

\* Caller 1 holds the default of a failed evaluation while the cache holds
\* an entry from which caller 2 has been answered.
C34_Witness ==
  /\ pc[1] = "evaluated" /\ ~ret[1].cached /\ ret[1].evaluation = ClaimedDefault
  /\ pc[2] = "evaluated" /\ ret[2].cached
  /\ req[1] = req[2]
  /\ cache # <<>>

\* C35: with the default thresholds 75 / 35, an evaluation returned by the
\* evaluator (validated and recomputed, or the default) is routed to low
\* only when its task_type is classification or extraction and its
\* reasoning_depth is low; every other evaluation is routed to mid or pro.
C35_LowOnlyForShallowClassificationOrExtraction ==
  (decideOut # <<>> /\ thresholds = [proThreshold |-> 75, midThreshold |-> 35])
    => LET e == replyOut[1].evaluation
       IN  /\ decideOut[1].tier \in {"low", "mid", "pro"}
           /\ decideOut[1].tier = "low" =>
                /\ e.task_type \in {"classification", "extraction"}
                /\ e.reasoning_depth = "low"

\* A validated reply about a shallow extraction has been routed to low under
\* the default thresholds.
C35_Witness ==
  /\ decideOut # <<>>
  /\ thresholds = [proThreshold |-> 75, midThreshold |-> 35]
  /\ replyOut[1].store
  /\ replyOut[1].evaluation.task_type = "extraction"
  /\ replyOut[1].evaluation.reasoning_depth = "low"
  /\ decideOut[1].tier = "low"

\* The tier whose provider is configured with this endpoint URL.
ClaimedTierOfUrl(baseUrl) ==
  CASE baseUrl = "url-pro" -> "pro"
    [] baseUrl = "url-mid" -> "mid"
    [] baseUrl = "url-low" -> "low"

\* The tier whose provider is configured with this model id.
ClaimedTierOfModel(model) ==
  CASE model = "model-pro" -> "pro"
    [] model = "model-mid" -> "mid"
    [] model = "model-low" -> "low"

\* C36 (as stated): in every backend call the proxy makes, first attempt or
\* fallback, whether or not request.model names a tier, the endpoint called
\* (and with it the bearer credential, taken from the same provider) belongs
\* to the tier of the model id in the forwarded body.
C36_Original ==
  \A i \in 1..Len(calls) :
    ClaimedTierOfUrl(calls[i].baseUrl) = ClaimedTierOfModel(calls[i].body.model)

\* C37 (as stated): every log entry of a request has modelUsed equal to the
\* model id sent in the body of the backend call answered for that request,
\* and route equal to the tier that model id belongs to.
C37_Original ==
  \A i \in 1..Len(ClaimedEntries) :
    /\ calls # <<>>
    /\ ClaimedEntries[i].modelUsed = calls[1].body.model
    /\ ClaimedEntries[i].route = ClaimedTierOfModel(calls[1].body.model)

\* The sum of the counts kept under the given keys.
RECURSIVE ClaimedCountsTotal(_, _)
ClaimedCountsTotal(counts, keys) ==
  IF keys = {} THEN 0
  ELSE LET k == CHOOSE x \in keys : TRUE
       IN  counts[k] + ClaimedCountsTotal(counts, keys \ {k})

\* C38: the number of entries appended to the log file since the last reset
\* equals totalRequests, and the per-route and per-task counts sum to it:
\* an entry whose append failed is counted nowhere, an entry that was
\* appended is counted.
C38_AppendedEqualsTotalRequests ==
  LET stats == ReadStats(statsTracker.tracker.stats, statsTracker.heap)
  IN  /\ appended = stats.totalRequests
      /\ appended = ClaimedCountsTotal(stats.routeCounts, RouteTiers)
      /\ appended = ClaimedCountsTotal(stats.taskTypeCounts, TaskTypes)
      /\ appended = BagCardinality(recorded)
      /\ appended <= Len(logFile)

\* After a reset entries have been appended and counted while the file
\* still holds older ones, and the storage is failing now.
C38_Witness ==
  /\ Len(statsTracker.heap) > 2
  /\ appended = 2
  /\ Len(logFile) > appended
  /\ statsTracker.tracker.stats.totalRequests = 2
  /\ storage = "failing"

\* The order of the tiers: low < mid < pro.
ClaimedTierRank(tier) ==
  CASE tier = "low" -> 0
    [] tier = "mid" -> 1
    [] tier = "pro" -> 2

\* C39: with the default thresholds and confidence >= 0.7, the tier decide
\* returned for an evaluation is not above the tier it returns for the same
\* evaluation with any higher score (0..100), and not below the tier it
\* returns with any lower score: task type and token size fixed, raising
\* the score never lowers the tier.
C39_TierMonotoneInScore ==
  (/\ decideOut # <<>>
   /\ thresholds = [proThreshold |-> 75, midThreshold |-> 35]
   /\ decideIn.evaluation.confidence >= 700)
    => \A score \in 0..100 :
         LET e     == decideIn.evaluation
             other == decide(thresholds, [e EXCEPT !.complexity_score = score],
                             decideIn.cached)
         IN  /\ score >= e.complexity_score =>
                  ClaimedTierRank(other.tier) >= ClaimedTierRank(decideOut[1].tier)
             /\ score <= e.complexity_score =>
                  ClaimedTierRank(other.tier) <= ClaimedTierRank(decideOut[1].tier)

\* A coding evaluation with score 74 and confidence 0.7 has been routed to
\* mid under the default thresholds (75 and above go to pro, 69 and below
\* stay in mid by rule 5).
C39_Witness ==
  /\ decideOut # <<>>
  /\ thresholds = [proThreshold |-> 75, midThreshold |-> 35]
  /\ decideIn.evaluation.confidence = 700
  /\ decideIn.evaluation.task_type = "coding"
  /\ decideIn.evaluation.complexity_score = 74
  /\ decideIn.evaluation.estimated_token_size = "small"
  /\ decideOut[1].tier = "mid"

\* C40 (as stated): for every evaluation the launcher's makeRoutingDecision
\* and RoutingEngine.decide, given the same thresholds, return the same
\* tier.
C40_Original ==
  (decideOut # <<>> /\ decision # <<>>) => decision[1].tier = decideOut[1].tier

====
